---- MODULE Spec2Model ----
(***************************************************************************)
(* Model of the anchored PDF cropper                                       *)
(* (app/services/anchored_pdf_cropper/service.py and router.py).           *)
(*                                                                         *)
(* Strings are sequences of one-character strings.  A Python Optional is a *)
(* tuple: None is <<>>, a string s is <<s>>, an int y is <<y>>, and a box   *)
(* is the 4-tuple <<x1, y1, x2, y2>>.                                       *)
(***************************************************************************)
EXTENDS Integers, Sequences, FiniteSets, TLC

VARIABLES
    pc,         \* position of the request: router, service loops, response
    files,      \* the uploaded file names, in upload order
    pdf_index,  \* crop_pdfs: 1-based index of the document being processed
    pages,      \* crop_pdfs: the rendered pages [w, h, ocr] of that document
    page_idx,   \* crop_pdfs: 1-based index of the next page of that document
    zipf,       \* the archive: sequence of members [name, data]
    loc,        \* locals of the last page iteration (OCR data, anchors, crop box)
    error,      \* the exception that left crop_pdfs, "" when none
    response,   \* what the router answered: [status, body], status 0 before it answers
    render_calls, \* the renderers _render_pdf_pages invoked for the current document
    fn,         \* pure-function harness: the function applied, "" when none
    arg,        \* pure-function harness: its arguments
    ret         \* pure-function harness: its results, in call order

vars == <<pc, files, pdf_index, pages, page_idx, zipf, loc, error, response, render_calls,
          fn, arg, ret>>

(***************************************************************************)
(* Bounds of the model                                                     *)
(***************************************************************************)
MaxStrLen == 3     \* longest input string of the _normalize harness
MaxTextLen == 3    \* longest text/keyword of the _fuzzy_match harness
MaxWords == 2      \* most OCR words on one page
MaxFiles == 2      \* most uploaded files in one request
MaxPages == 2      \* most rendered pages of one document

None == <<>>

Min2(a, b) == IF a <= b THEN a ELSE b
Max2(a, b) == IF a >= b THEN a ELSE b
SetMin(S) == CHOOSE x \in S : \A y \in S : x <= y
SetMax(S) == CHOOSE x \in S : \A y \in S : x >= y

RECURSIVE Concat(_)
Concat(ss) == IF ss = <<>> THEN <<>> ELSE Head(ss) \o Concat(Tail(ss))

(* all sequences over S of length 0..n *)
SeqsUpTo(S, n) == UNION {[1..k -> S] : k \in 0..n}

(***************************************************************************)
(* Characters                                                              *)
(***************************************************************************)
UpperChars == <<"A","B","C","D","E","F","G","H","I","J","K","L","M",
                "N","O","P","Q","R","S","T","U","V","W","X","Y","Z">>
LowerChars == <<"a","b","c","d","e","f","g","h","i","j","k","l","m",
                "n","o","p","q","r","s","t","u","v","w","x","y","z">>
DigitChars == <<"0","1","2","3","4","5","6","7","8","9">>
Range(f) == {f[i] : i \in DOMAIN f}

(* str.lower() of one character.  "I_DOT" stands for U+0130, whose lower   *)
(* case is the two characters "i" and U+0307 ("COMBINING_DOT").            *)
LowerChar(c) ==
    IF c \in Range(UpperChars)
    THEN <<LowerChars[CHOOSE i \in DOMAIN UpperChars : UpperChars[i] = c]>>
    ELSE IF c = "I_DOT" THEN <<"i", "COMBINING_DOT">>
    ELSE <<c>>

lower(s) == Concat([i \in DOMAIN s |-> LowerChar(s[i])])

(* the characters str.strip() removes *)
Whitespace == {" ", "\t", "\n", "\r"}

RECURSIVE lstrip(_)
lstrip(s) == IF s # <<>> /\ Head(s) \in Whitespace THEN lstrip(Tail(s)) ELSE s

RECURSIVE rstrip(_)
rstrip(s) ==
    IF s # <<>> /\ s[Len(s)] \in Whitespace THEN rstrip(SubSeq(s, 1, Len(s) - 1)) ELSE s

strip(s) == rstrip(lstrip(s))

(* the character class [a-z0-9 ] of _normalize's regular expression *)
NormClass == Range(LowerChars) \cup Range(DigitChars) \cup {" "}

(* re.sub(r"[^a-z0-9 ]+", "", s) *)
re_sub(s) == SelectSeq(s, LAMBDA c : c \in NormClass)

(* s or "" *)
OrEmpty(o) == IF o = None \/ o[1] = <<>> THEN <<>> ELSE o[1]

(* mutant of _normalize: strips before the regular expression runs *)
NormalizeStripFirst(o) == re_sub(strip(lower(OrEmpty(o))))

(* AnchoredPdfCropperService._normalize *)
_normalize(o) == strip(re_sub(lower(OrEmpty(o))))

(***************************************************************************)
(* difflib.SequenceMatcher(a, b).ratio(), as _fuzzy_match uses it: no junk *)
(* predicate, and the automatic junk heuristic needs len(b) >= 200.        *)
(***************************************************************************)
RECURSIVE RunLen(_, _, _, _)
RunLen(a, b, i, j) ==
    IF i <= Len(a) /\ j <= Len(b) /\ a[i] = b[j] THEN 1 + RunLen(a, b, i + 1, j + 1) ELSE 0

(* SequenceMatcher.find_longest_match: the longest block a[i..i+k-1] =     *)
(* b[j..j+k-1]; of the longest, the one starting earliest in a, and of     *)
(* those the one starting earliest in b.  <<1, 1, 0>> when nothing matches. *)
find_longest_match(a, b) ==
    LET starts == (1..Len(a)) \X (1..Len(b))
        best == IF starts = {} THEN 0 ELSE SetMax({RunLen(a, b, p[1], p[2]) : p \in starts})
    IN  IF best = 0 THEN <<1, 1, 0>>
        ELSE LET longest == {p \in starts : RunLen(a, b, p[1], p[2]) = best}
                 i == SetMin({p[1] : p \in longest})
                 j == SetMin({p[2] : p \in {q \in longest : q[1] = i}})
             IN  <<i, j, best>>

(* the sum of the sizes of SequenceMatcher.get_matching_blocks() *)
RECURSIVE matches(_, _)
matches(a, b) ==
    LET m == find_longest_match(a, b)
    IN  IF m[3] = 0 THEN 0
        ELSE m[3]
             + matches(SubSeq(a, 1, m[1] - 1), SubSeq(b, 1, m[2] - 1))
             + matches(SubSeq(a, m[1] + m[3], Len(a)), SubSeq(b, m[2] + m[3], Len(b)))

(* ratio() >= min_ratio, for min_ratio the fraction r[1]/r[2]: ratio() is  *)
(* 2.0 * matches / (len(a) + len(b)), and 1.0 when both are empty.         *)
RatioAtLeast(a, b, r) ==
    IF Len(a) + Len(b) = 0 THEN r[2] >= r[1]
    ELSE 2 * matches(a, b) * r[2] >= r[1] * (Len(a) + Len(b))

(* Python's  sub in s  for strings *)
Contains(s, sub) ==
    \E i \in 1..(Len(s) - Len(sub) + 1) : SubSeq(s, i, i + Len(sub) - 1) = sub

(* mutant of _fuzzy_match: the substring test is lost *)
FuzzyMatchRatioOnly(txt, keywords, min_ratio) ==
    LET t == _normalize(<<txt>>)
    IN  IF t = <<>> THEN FALSE
        ELSE \E n \in DOMAIN keywords :
               LET kk == _normalize(<<keywords[n]>>)
               IN  kk # <<>> /\ RatioAtLeast(t, kk, min_ratio)

(* mutant of _fuzzy_match: a keyword that normalizes to the empty string   *)
(* ends the loop instead of being skipped                                  *)
FuzzyMatchEmptyKeywordStops(txt, keywords, min_ratio) ==
    LET t == _normalize(<<txt>>)
        kk(n) == _normalize(<<keywords[n]>>)
        stop == SetMin({n \in DOMAIN keywords : kk(n) = <<>>} \cup {Len(keywords) + 1})
    IN  IF t = <<>> THEN FALSE
        ELSE \E n \in 1..(stop - 1) : RatioAtLeast(t, kk(n), min_ratio) \/ Contains(t, kk(n))

(* AnchoredPdfCropperService._fuzzy_match; min_ratio is a fraction <<n, d>> *)
_fuzzy_match(txt, keywords, min_ratio) ==
    LET t == _normalize(<<txt>>)
    IN  IF t = <<>> THEN FALSE
        ELSE \E n \in DOMAIN keywords :
               LET kk == _normalize(<<keywords[n]>>)
               IN  kk # <<>> /\ (RatioAtLeast(t, kk, min_ratio) \/ Contains(t, kk))

(* the default min_ratio = 0.75 *)
DefaultMinRatio == <<3, 4>>

(***************************************************************************)
(* Page geometry.  An OCR word is [text, left, top, width, height]; the     *)
(* outcome of one pytesseract.image_to_data call is [raises, words].       *)
(***************************************************************************)

(* the page heights h <= 4000 at which the double 0.58 * h lies just below *)
(* the integer 58 * h / 100, so that int() yields one less                 *)
FloatLow58 == {50, 100, 200, 400, 750, 800, 850, 1450, 1500, 1550, 1600, 1650,
               1700, 1750, 2850, 2900, 2950, 3000, 3050, 3100, 3150, 3200, 3250,
               3300, 3350, 3400, 3450, 3500}

(* int(c * x) for the decimal literal c = n/d and an int 0 <= x <= 4000,   *)
(* as double arithmetic computes it: of the literals the cropper uses only *)
(* 0.58 differs from the exact quotient in that range                      *)
int_mul(n, d, x) ==
    ((n * x) \div d) - (IF n = 58 /\ d = 100 /\ x \in FloatLow58 THEN 1 ELSE 0)

HeaderKeys == <<
    <<"a", "c", "c", "o", "u", "n", "t">>,
    <<"n", "a", "m", "e">>,
    <<"a", "d", "d", "r", "e", "s", "s">>,
    <<"i", "f", " ", "y", "o", "u", " ", "d", "o", "n", "'", "t", " ", "k", "n", "o", "w">>,
    <<"i", "f", " ", "y", "o", "u", " ", "d", "o", "n", "t", " ", "k", "n", "o", "w">>,
    <<"c", "h", "e", "c", "k", " ", "o", "n", "e">>,
    <<"f", "o", "r", " ", "s", "a", "l", "e">>,
    <<"n", "o", "t", "i", "c", "e">>,
    <<"w", "a", "n", "t", "e", "d">> >>

MailtoKeys == <<
    <<"m", "a", "i", "l", " ", "t", "o">>,
    <<"l", "a", "n", "c", "a", "s", "t", "e", "r">>,
    <<"m", "a", "i", "l", "b", "o", "x", " ", "m", "a", "r", "k", "e", "t", "s">>,
    <<"p", "o", " ", "b", "o", "x">>,
    <<"l", "a", "n", "c", "a", "s", "t", "e", "r", ",", " ", "p", "a">> >>

(* the indices of the words _find_header_top collects *)
HeaderHits(words) ==
    {i \in DOMAIN words :
        LET txt == lower(strip(OrEmpty(<<words[i].text>>)))
        IN  txt # <<>> /\ \E k \in DOMAIN HeaderKeys : Contains(txt, HeaderKeys[k])}

(* mutant of _find_header_top: the first match instead of the topmost *)
FindHeaderTopFirst(call, h) ==
    IF call.raises \/ Len(call.words) = 0 \/ HeaderHits(call.words) = {} THEN None
    ELSE <<Max2(0, call.words[SetMin(HeaderHits(call.words))].top - int_mul(1, 100, h))>>

(* AnchoredPdfCropperService._find_header_top, given the outcome of its    *)
(* OCR call and the page height                                            *)
_find_header_top(call, h) ==
    IF call.raises THEN None
    ELSE IF Len(call.words) = 0 THEN None
    ELSE LET ys == {call.words[i].top : i \in HeaderHits(call.words)}
         IN  IF ys = {} THEN None
             ELSE <<Max2(0, SetMin(ys) - int_mul(1, 100, h))>>

(* mutant of the collection of boxes: only the first matching word counts *)
MailtoBoxesFirstHit(words, h) ==
    LET hits == {j \in DOMAIN words :
                    /\ strip(OrEmpty(<<words[j].text>>)) # <<>>
                    /\ ~(words[j].top < int_mul(1, 2, h))
                    /\ _fuzzy_match(strip(OrEmpty(<<words[j].text>>)), MailtoKeys,
                                    DefaultMinRatio)}
    IN  {<<words[i].left, words[i].top,
           words[i].left + words[i].width, words[i].top + words[i].height>> :
            i \in {j \in hits : \A k \in hits : j <= k}}

(* mutant of the collection of boxes: upper-half words are not skipped *)
MailtoBoxesAnyHeight(words, h) ==
    {<<words[i].left, words[i].top,
       words[i].left + words[i].width, words[i].top + words[i].height>> :
        i \in {j \in DOMAIN words :
                  /\ strip(OrEmpty(<<words[j].text>>)) # <<>>
                  /\ _fuzzy_match(strip(OrEmpty(<<words[j].text>>)), MailtoKeys,
                                  DefaultMinRatio)}}

(* the boxes _find_mailto_block collects: lower-half words that match *)
MailtoBoxes(words, h) ==
    LET min_y == int_mul(1, 2, h)
        hit(i) == LET txt == strip(OrEmpty(<<words[i].text>>))
                  IN  /\ txt # <<>>
                      /\ ~(words[i].top < min_y)
                      /\ _fuzzy_match(txt, MailtoKeys, DefaultMinRatio)
    IN  {<<words[i].left, words[i].top,
           words[i].left + words[i].width, words[i].top + words[i].height>> :
            i \in {j \in DOMAIN words : hit(j)}}

(* mutant of the envelope: the minimum height is not enforced *)
MailtoEnvelopeNoMinHeight(boxes, w, h) ==
    <<Max2(int_mul(45, 100, w), SetMin({b[1] : b \in boxes}) - int_mul(2, 100, w)),
      Max2(0, SetMin({b[2] : b \in boxes}) - int_mul(1, 100, h)),
      Min2(w, SetMax({b[3] : b \in boxes}) + int_mul(6, 100, w)),
      Min2(h, SetMax({b[4] : b \in boxes}) + int_mul(3, 100, h))>>

(* mutant of the envelope: the minimum height is reached by raising the    *)
(* top edge                                                                *)
MailtoEnvelopeRaisesTop(boxes, w, h) ==
    LET left == Max2(int_mul(45, 100, w), SetMin({b[1] : b \in boxes}) - int_mul(2, 100, w))
        top0 == Max2(0, SetMin({b[2] : b \in boxes}) - int_mul(1, 100, h))
        right == Min2(w, SetMax({b[3] : b \in boxes}) + int_mul(6, 100, w))
        bottom == Min2(h, SetMax({b[4] : b \in boxes}) + int_mul(3, 100, h))
        top == IF bottom - top0 < int_mul(10, 100, h)
               THEN Max2(0, bottom - int_mul(10, 100, h)) ELSE top0
    IN  <<left, top, right, bottom>>

(* the envelope of the collected boxes, padded, with the minimum height *)
MailtoEnvelope(boxes, w, h) ==
    LET pad_x == int_mul(2, 100, w)
        pad_y == int_mul(1, 100, h)
        left == Max2(int_mul(45, 100, w), SetMin({b[1] : b \in boxes}) - pad_x)
        top == Max2(0, SetMin({b[2] : b \in boxes}) - pad_y)
        right == Min2(w, SetMax({b[3] : b \in boxes}) + int_mul(6, 100, w))
        bottom0 == Min2(h, SetMax({b[4] : b \in boxes}) + int_mul(3, 100, h))
        min_h == int_mul(10, 100, h)
        bottom == IF bottom0 - top < min_h THEN Min2(h, top + min_h) ELSE bottom0
    IN  <<left, top, right, bottom>>

(* AnchoredPdfCropperService._find_mailto_block, given the outcome of its  *)
(* OCR call and the page size                                              *)
_find_mailto_block(call, w, h) ==
    IF call.raises THEN None
    ELSE IF Len(call.words) = 0 THEN None
    ELSE LET boxes == MailtoBoxes(call.words, h)
         IN  IF boxes = {} THEN None
             ELSE MailtoEnvelope(boxes, w, h)

(* mutant of the two searches: the OCR call's exception is not caught *)
OcrRaiseUncaught(call) == call.raises

(* whether an exception of the OCR call leaves _find_mailto_block: its    *)
(* whole body is inside  try: ... except Exception: return None            *)
find_mailto_block_raises(call) == FALSE

(* the same for _find_header_top *)
find_header_top_raises(call) == FALSE

(***************************************************************************)
(* The crop box of one page (crop_pdfs, the body of the page loop)         *)
(***************************************************************************)

(* mutant of the primary branch: a header top of 0 is taken for a missing  *)
(* header, as the expression  header_top or header_cap  would              *)
PrimaryCropBoxHeaderFalsy(mailto_box, header_top0, img_w, img_h) ==
    LET left == Max2(int_mul(22, 100, img_w), mailto_box[1] - int_mul(30, 100, img_w))
        right == Min2(img_w, Max2(mailto_box[3] + int_mul(10, 100, img_w),
                                  int_mul(965, 1000, img_w)))
        bottom == Min2(img_h, mailto_box[4] + int_mul(4, 1000, img_h))
        header_cap == int_mul(14, 100, img_h)
        header_top == IF header_top0 = None \/ header_top0 = <<0>>
                      THEN header_cap ELSE header_top0[1]
        top0 == Max2(0, Min2(Min2(header_top, header_cap),
                             Max2(0, bottom - int_mul(64, 100, img_h))))
        top == IF bottom - top0 < int_mul(58, 100, img_h)
               THEN Max2(0, bottom - int_mul(58, 100, img_h)) ELSE top0
    IN  <<left, top, right, bottom>>

(* mutant of the primary branch: a detected header sets the top without    *)
(* the cap at 14% of the page height                                       *)
PrimaryCropBoxUncapped(mailto_box, header_top0, img_w, img_h) ==
    LET left == Max2(int_mul(22, 100, img_w), mailto_box[1] - int_mul(30, 100, img_w))
        right == Min2(img_w, Max2(mailto_box[3] + int_mul(10, 100, img_w),
                                  int_mul(965, 1000, img_w)))
        bottom == Min2(img_h, mailto_box[4] + int_mul(4, 1000, img_h))
        top_target == IF header_top0 = None THEN int_mul(14, 100, img_h) ELSE header_top0[1]
        top0 == Max2(0, Min2(top_target, Max2(0, bottom - int_mul(64, 100, img_h))))
        top == IF bottom - top0 < int_mul(58, 100, img_h)
               THEN Max2(0, bottom - int_mul(58, 100, img_h)) ELSE top0
    IN  <<left, top, right, bottom>>

(* the branch taken when the mail-to block was found *)
primary_crop_box(mailto_box, header_top0, img_w, img_h) ==
    LET mx1 == mailto_box[1]
        mx2 == mailto_box[3]
        my2 == mailto_box[4]
        left == Max2(int_mul(22, 100, img_w), mx1 - int_mul(30, 100, img_w))
        right == Min2(img_w, Max2(mx2 + int_mul(10, 100, img_w), int_mul(965, 1000, img_w)))
        bottom == Min2(img_h, my2 + int_mul(4, 1000, img_h))
        header_cap == int_mul(14, 100, img_h)
        header_top == IF header_top0 = None THEN header_cap ELSE header_top0[1]
        top_target == Min2(header_top, header_cap)
        target_h == int_mul(64, 100, img_h)
        min_h == int_mul(58, 100, img_h)
        top_from_height == Max2(0, bottom - target_h)
        top0 == Max2(0, Min2(top_target, top_from_height))
        top == IF bottom - top0 < min_h THEN Max2(0, bottom - min_h) ELSE top0
    IN  <<left, top, right, bottom>>

(* the branch taken when it was not *)
fallback_crop_box(img_w, img_h) ==
    <<int_mul(25, 100, img_w), int_mul(12, 100, img_h), img_w, int_mul(92, 100, img_h)>>

(* mutant of the page loop: the header is searched on every page and      *)
(* also sets the top of the fallback box                                   *)
PageLocalsHeaderInFallback(img) ==
    LET mailto_box == _find_mailto_block(img.ocr.mailto, img.w, img.h)
        header_top == _find_header_top(img.ocr.header, img.h)
        fb == fallback_crop_box(img.w, img.h)
    IN  [img_w |-> img.w, img_h |-> img.h, ocr |-> img.ocr,
         mailto_box |-> mailto_box, header_top |-> header_top,
         crop_box |-> IF mailto_box # None
                      THEN primary_crop_box(mailto_box, header_top, img.w, img.h)
                      ELSE IF header_top # None
                      THEN <<fb[1], Min2(header_top[1], fb[2]), fb[3], fb[4]>>
                      ELSE fb]

(* the locals of one iteration of the page loop, up to crop_box; the       *)
(* header is searched only after the mail-to block was found               *)
page_locals(img) ==
    LET mailto_box == _find_mailto_block(img.ocr.mailto, img.w, img.h)
        header_top == IF mailto_box = None THEN None
                      ELSE _find_header_top(img.ocr.header, img.h)
    IN  [img_w |-> img.w, img_h |-> img.h, ocr |-> img.ocr,
         mailto_box |-> mailto_box, header_top |-> header_top,
         crop_box |-> IF mailto_box # None
                      THEN primary_crop_box(mailto_box, header_top, img.w, img.h)
                      ELSE fallback_crop_box(img.w, img.h)]

(* whether an exception leaves the two anchor searches of the page *)
anchor_search_raises(img) ==
    \/ find_mailto_block_raises(img.ocr.mailto)
    \/ /\ _find_mailto_block(img.ocr.mailto, img.w, img.h) # None
       /\ find_header_top_raises(img.ocr.header)

(* a box with a positive width and height inside a w x h image *)
WellFormed(box, w, h) ==
    /\ 0 <= box[1] /\ box[1] < box[3] /\ box[3] <= w
    /\ 0 <= box[2] /\ box[2] < box[4] /\ box[4] <= h

(* what Image.crop(box) followed by save(format="PNG") can do: for a box   *)
(* with no pixels Pillow's behaviour depends on its version (crop rejects  *)
(* right < left, the PNG encoder rejects an empty image)                   *)
CropOutcomes(box) ==
    IF box[1] < box[3] /\ box[2] < box[4] THEN {"ok"} ELSE {"ok", "raise"}

(***************************************************************************)
(* File names                                                              *)
(***************************************************************************)
EndsWith(s, suffix) ==
    Len(s) >= Len(suffix) /\ SubSeq(s, Len(s) - Len(suffix) + 1, Len(s)) = suffix

(* os.path.basename, POSIX: what follows the last "/" *)
basename(path) ==
    LET slashes == {i \in DOMAIN path : path[i] = "/"}
    IN  IF slashes = {} THEN path ELSE SubSeq(path, SetMax(slashes) + 1, Len(path))

(* os.path.splitext(name)[0]: cut at the last ".", unless only dots precede it *)
splitext_root(name) ==
    LET dots == {i \in DOMAIN name : name[i] = "."}
    IN  IF dots = {} THEN name
        ELSE LET d == SetMax(dots)
             IN  IF \A i \in 1..(d - 1) : name[i] = "." THEN name
                 ELSE SubSeq(name, 1, d - 1)

RECURSIVE decimal(_)
decimal(n) == IF n < 10 THEN <<DigitChars[n + 1]>>
              ELSE decimal(n \div 10) \o <<DigitChars[(n % 10) + 1]>>

(* f"{n:02d}" *)
format_02d(n) == IF n < 10 THEN <<"0">> \o decimal(n) ELSE decimal(n)

(* original_name or f"file_{pdf_index}.pdf" *)
name_or_default(original_name, index) ==
    IF original_name = <<>> THEN <<"f", "i", "l", "e", "_">> \o decimal(index) \o <<".", "p", "d", "f">> ELSE original_name

(* base = os.path.splitext(os.path.basename(...))[0] *)
base_of(original_name, index) == splitext_root(basename(name_or_default(original_name, index)))

(* mutant of zip_name: the page number is not zero-padded *)
ZipNameUnpadded(base, idx) == base \o <<"_", "p">> \o decimal(idx) \o <<".", "p", "n", "g">>

(* zip_name = f"{base}_p{page_idx:02d}.png" *)
zip_name(base, idx) == base \o <<"_", "p">> \o format_02d(idx) \o <<".", "p", "n", "g">>

(***************************************************************************)
(* Idle values of the variables a specification does not use               *)
(***************************************************************************)
NoOcr == [mailto |-> [raises |-> FALSE, words |-> <<>>],
          header |-> [raises |-> FALSE, words |-> <<>>]]

NoLocals == [img_w |-> 0, img_h |-> 0, ocr |-> NoOcr, mailto_box |-> None,
             header_top |-> None, crop_box |-> None]

NoResponse == [status |-> 0, body |-> <<>>]

RequestIdle ==
    /\ pc = "idle" /\ files = <<>> /\ pdf_index = 0 /\ pages = <<>> /\ page_idx = 0
    /\ zipf = <<>> /\ loc = NoLocals /\ error = "" /\ response = NoResponse
    /\ render_calls = <<>>

RequestVars ==
    <<pc, files, pdf_index, pages, page_idx, zipf, loc, error, response, render_calls>>

HarnessIdle == fn = "" /\ arg = <<>> /\ ret = <<>>

(***************************************************************************)
(* _normalize applied to a string, then to its own result                  *)
(***************************************************************************)
NormAlphabet == {"M", "a", "7", " ", "-", "\t", "I_DOT"}

NormInputs == {None} \cup {<<s>> : s \in SeqsUpTo(NormAlphabet, MaxStrLen)}

InitNormalize == RequestIdle /\ fn = "" /\ arg \in NormInputs /\ ret = <<>>

CallNormalize ==
    /\ fn = ""
    /\ fn' = "_normalize"
    /\ ret' = <<_normalize(arg)>>
    /\ UNCHANGED <<arg, RequestVars>>

CallNormalizeAgain ==
    /\ fn = "_normalize" /\ Len(ret) = 1
    /\ ret' = Append(ret, _normalize(<<ret[1]>>))
    /\ UNCHANGED <<fn, arg, RequestVars>>

NextNormalize == CallNormalize \/ CallNormalizeAgain

SpecNormalize == InitNormalize /\ [][NextNormalize]_vars

\* C5: _normalize is idempotent, and its result holds only lowercase ASCII
\* letters, digits and spaces, with no space at either end.
C5_NormalizeIdempotent ==
    /\ (fn = "_normalize" /\ Len(ret) = 2) => ret[2] = ret[1]
    /\ (fn = "_normalize" /\ Len(ret) >= 1) =>
          /\ \A i \in DOMAIN ret[1] : ret[1][i] \in NormClass
          /\ ret[1] # <<>> => (ret[1][1] # " " /\ ret[1][Len(ret[1])] # " ")

\* C5 witness: a string with an upper-case letter, a removed character next to
\* a space at its end, normalized twice to a non-empty result.
C5_Witness ==
    /\ fn = "_normalize" /\ Len(ret) = 2
    /\ arg = <<(<<"M", " ", "-">>)>>
    /\ ret[2] = <<"m">>

(***************************************************************************)
(* _fuzzy_match applied to a text, one keyword and a threshold             *)
(***************************************************************************)
FuzzyAlphabet == {"a", "B", " ", "!"}

FuzzyTexts == SeqsUpTo(FuzzyAlphabet, MaxTextLen)

MinRatios == {<<0, 1>>, <<1, 2>>, <<3, 4>>, <<1, 1>>}

InitFuzzy ==
    /\ RequestIdle /\ fn = "" /\ ret = <<>>
    /\ arg \in [text : FuzzyTexts, kw : FuzzyTexts, min_ratio : MinRatios]

CallFuzzyMatch ==
    /\ fn = ""
    /\ fn' = "_fuzzy_match"
    /\ ret' = <<_fuzzy_match(arg.text, <<arg.kw>>, arg.min_ratio)>>
    /\ UNCHANGED <<arg, RequestVars>>

(* the keywords a call can pass ahead of arg.kw: one that normalizes to    *)
(* the empty string and one that does not                                  *)
PrecedingKeywords == {<<"!">>, <<"a">>}

(* _fuzzy_match with a list of two keywords; ret keeps the list *)
CallFuzzyMatchKeywords ==
    /\ fn = ""
    /\ \E k \in PrecedingKeywords :
         /\ fn' = "_fuzzy_match_keywords"
         /\ ret' = <<_fuzzy_match(arg.text, <<k, arg.kw>>, arg.min_ratio), <<k, arg.kw>>>>
    /\ UNCHANGED <<arg, RequestVars>>

NextFuzzy == CallFuzzyMatch \/ CallFuzzyMatchKeywords

SpecFuzzy == InitFuzzy /\ [][NextFuzzy]_vars

\* C4 as claimed: _fuzzy_match(text, [kw], min_ratio) is true whenever
\* normalize(kw) is a literal substring of normalize(text).
C4_SubstringAccepts_Original ==
    (fn = "_fuzzy_match"
       /\ Contains(_normalize(<<arg.text>>), _normalize(<<arg.kw>>)))
    => ret[1] = TRUE

\* C4 amended: _fuzzy_match(text, [kw], min_ratio) is true whenever
\* normalize(kw) is a non-empty literal substring of normalize(text).
C4_NonEmptySubstringAccepts ==
    (fn = "_fuzzy_match"
       /\ _normalize(<<arg.kw>>) # <<>>
       /\ Contains(_normalize(<<arg.text>>), _normalize(<<arg.kw>>)))
    => ret[1] = TRUE

\* C4 witness: the text "aB!" normalizes to "ab" and the keyword "B" to "b",
\* a substring of it; the similarity 2/3 is below the threshold 1, and the
\* match is accepted.
C4_Witness ==
    /\ fn = "_fuzzy_match"
    /\ arg = [text |-> <<"a", "B", "!">>, kw |-> <<"B">>, min_ratio |-> <<1, 1>>]
    /\ ~RatioAtLeast(_normalize(<<arg.text>>), _normalize(<<arg.kw>>), arg.min_ratio)
    /\ ret[1] = TRUE

(***************************************************************************)
(* The request: router.crop_pdfs calling AnchoredPdfCropperService.crop_pdfs *)
(***************************************************************************)
PdfSuffix == <<".", "p", "d", "f">>

(* the words an OCR call can report on a w x h page: each text in a        *)
(* 1-pixel box at the top left corner, just above and just below the       *)
(* middle line, and at the bottom right corner                             *)
WordPool(texts, w, h) ==
    LET spots == {p \in {<<0, 0>>, <<w - 1, (h \div 2) - 1>>, <<0, h \div 2>>, <<w - 1, h - 1>>} :
                     p[2] >= 0}
    IN  {[text |-> t, left |-> p[1], top |-> p[2], width |-> 1, height |-> 1] :
            t \in texts, p \in spots}

(* the outcomes of the two OCR calls made for one page: both report the    *)
(* same words, or the second raises, or the first raises                   *)
OcrOutcomes(wordlists) ==
    {[mailto |-> [raises |-> FALSE, words |-> ws],
      header |-> [raises |-> r, words |-> IF r THEN <<>> ELSE ws]] :
        ws \in wordlists, r \in BOOLEAN}
    \cup {[mailto |-> [raises |-> TRUE, words |-> <<>>],
           header |-> [raises |-> TRUE, words |-> <<>>]]}

OcrTexts == {<<"M", "a", "i", "l", " ", "t", "o">>, <<"N", "a", "m", "e">>, <<"W", "h", "e", "a", "t">>}

(* page sizes: one pixel, a height at which the panel cannot reach 58%,   *)
(* a height at which int(0.58 * h) rounds down, the size of the spec's     *)
(* example, and US Letter at 300 dpi                                       *)
PageSizes == {<<1, 1>>, <<100, 19>>, <<50, 50>>, <<1000, 1200>>, <<2550, 3300>>}

(* the pages of the single-page specification *)
FineImages ==
    UNION {{[w |-> d[1], h |-> d[2], ocr |-> o] :
              o \in OcrOutcomes(SeqsUpTo(WordPool(OcrTexts, d[1], d[2]), MaxWords))} :
           d \in PageSizes}

MailToWord == [text |-> <<"M", "a", "i", "l", " ", "t", "o">>, left |-> 500, top |-> 800, width |-> 100, height |-> 20]
NameWord == [text |-> <<"N", "a", "m", "e">>, left |-> 300, top |-> 100, width |-> 80, height |-> 20]

(* the pages of the multi-document specification: one on which both       *)
(* anchors are found, and one on which the OCR call raises                 *)
CoarseImages ==
    {[w |-> 1000, h |-> 1200, ocr |-> o] :
        o \in {[mailto |-> [raises |-> FALSE, words |-> <<NameWord, MailToWord>>],
                header |-> [raises |-> FALSE, words |-> <<NameWord, MailToWord>>]],
               [mailto |-> [raises |-> TRUE, words |-> <<>>],
                header |-> [raises |-> TRUE, words |-> <<>>]]}}

FileNames == {<<"a", ".", "p", "d", "f">>, <<"d", "/", "a", ".", "p", "d", "f">>, <<"b", ".", "t", "x", "t">>}

RequestInit(filelists) ==
    /\ HarnessIdle
    /\ pc = "router"
    /\ files \in filelists
    /\ pdf_index = 0 /\ pages = <<>> /\ page_idx = 0 /\ zipf = <<>>
    /\ loc = NoLocals /\ error = "" /\ response = NoResponse /\ render_calls = <<>>

(* router.crop_pdfs, lines 27-38: validation and reading of the uploads *)
Validate ==
    /\ pc = "router"
    /\ IF files = <<>> \/ \E i \in DOMAIN files : ~EndsWith(lower(files[i]), PdfSuffix)
       THEN /\ response' = [status |-> 400, body |-> <<>>]
            /\ pc' = "done"
            /\ UNCHANGED pdf_index
       ELSE /\ pc' = "for_pdf"
            /\ pdf_index' = 1
            /\ UNCHANGED response
    /\ UNCHANGED <<files, pages, page_idx, zipf, loc, error, render_calls, fn, arg, ret>>

(* mutant of _render_pdf_pages: when both renderers fail, no pages are     *)
(* returned instead of an exception being raised                           *)
RenderSwallowsFailure(primary, fitz, imgs) ==
    IF primary = "ok"
    THEN [calls |-> << <<"pdf2image", "ok">> >>, raised |-> "", pages |-> imgs]
    ELSE IF fitz = "none"
    THEN [calls |-> << <<"pdf2image", "raise">> >>, raised |-> "", pages |-> <<>>]
    ELSE IF fitz = "ok"
    THEN [calls |-> << <<"pdf2image", "raise">>, <<"fitz", "ok">> >>, raised |-> "",
          pages |-> imgs]
    ELSE [calls |-> << <<"pdf2image", "raise">>, <<"fitz", "raise">> >>, raised |-> "",
          pages |-> <<>>]

(* mutant of _render_pdf_pages: an installed PyMuPDF is invoked even when  *)
(* pdf2image has rendered the document                                     *)
RenderInvokesBoth(primary, fitz, imgs) ==
    IF primary = "ok"
    THEN [calls |-> IF fitz = "none" THEN << <<"pdf2image", "ok">> >>
                    ELSE << <<"pdf2image", "ok">>, <<"fitz", fitz>> >>,
          raised |-> "", pages |-> imgs]
    ELSE IF fitz = "none"
    THEN [calls |-> << <<"pdf2image", "raise">> >>, raised |-> "pdf2image", pages |-> <<>>]
    ELSE IF fitz = "ok"
    THEN [calls |-> << <<"pdf2image", "raise">>, <<"fitz", "ok">> >>, raised |-> "",
          pages |-> imgs]
    ELSE [calls |-> << <<"pdf2image", "raise">>, <<"fitz", "raise">> >>,
          raised |-> "unable_to_render", pages |-> <<>>]

(* what _render_pdf_pages does, given what pdf2image does and what PyMuPDF *)
(* is: not installed ("none"), rendering ("ok") or failing ("raise").      *)
(* calls lists the renderers invoked, each with its outcome; raised names  *)
(* the exception that leaves the function, "" when it returns pages        *)
_render_pdf_pages(primary, fitz, imgs) ==
    IF primary = "ok"
    THEN [calls |-> << <<"pdf2image", "ok">> >>, raised |-> "", pages |-> imgs]
    ELSE IF fitz = "none"
    THEN [calls |-> << <<"pdf2image", "raise">> >>, raised |-> "pdf2image", pages |-> <<>>]
    ELSE IF fitz = "ok"
    THEN [calls |-> << <<"pdf2image", "raise">>, <<"fitz", "ok">> >>, raised |-> "",
          pages |-> imgs]
    ELSE [calls |-> << <<"pdf2image", "raise">>, <<"fitz", "raise">> >>,
          raised |-> "unable_to_render", pages |-> <<>>]

(* crop_pdfs, lines 312-339: the next document is rendered (reading its    *)
(* page sizes in points only feeds a debug print)                          *)
RenderPdf(images, maxPages) ==
    /\ pc = "for_pdf" /\ pdf_index <= Len(files)
    /\ \E primary \in {"ok", "raise"}, fitz \in {"none", "ok", "raise"},
          imgs \in SeqsUpTo(images, maxPages) :
          LET r == _render_pdf_pages(primary, fitz, imgs)
          IN  /\ (r.pages = <<>> => imgs = <<>>)
              /\ render_calls' = r.calls
              /\ IF r.raised # ""
                 THEN /\ error' = r.raised
                      /\ pc' = "raised"
                      /\ UNCHANGED <<pages, page_idx>>
                 ELSE /\ pages' = r.pages
                      /\ page_idx' = 1
                      /\ pc' = "for_page"
                      /\ UNCHANGED error
    /\ UNCHANGED <<files, pdf_index, zipf, loc, response, fn, arg, ret>>

(* crop_pdfs, lines 341-390: one page is located, cropped and written *)
CropPage ==
    /\ pc = "for_page" /\ page_idx <= Len(pages)
    /\ LET img == pages[page_idx]
           l == page_locals(img)
           base == base_of(files[pdf_index], pdf_index)
       IN  IF anchor_search_raises(img)
           THEN /\ error' = "ocr"
                /\ pc' = "raised"
                /\ UNCHANGED <<page_idx, zipf, loc>>
           ELSE /\ loc' = l
                /\ \E crop \in CropOutcomes(l.crop_box), write \in {"ok", "raise"} :
                      IF crop = "raise" \/ write = "raise"
                      THEN /\ error' = (IF crop = "raise" THEN "crop" ELSE "archive_write")
                           /\ pc' = "raised"
                           /\ UNCHANGED <<page_idx, zipf>>
                      ELSE /\ zipf' = Append(zipf,
                                  [name |-> zip_name(base, page_idx),
                                   data |-> [pdf |-> pdf_index, page |-> page_idx,
                                             box |-> l.crop_box]])
                           /\ page_idx' = page_idx + 1
                           /\ UNCHANGED <<pc, error>>
    /\ UNCHANGED <<files, pdf_index, pages, response, render_calls, fn, arg, ret>>

(* crop_pdfs: the page loop of one document ends *)
NextPdf ==
    /\ pc = "for_page" /\ page_idx > Len(pages)
    /\ pdf_index' = pdf_index + 1
    /\ pc' = "for_pdf"
    /\ UNCHANGED <<files, pages, page_idx, zipf, loc, error, response, render_calls,
                   fn, arg, ret>>

(* crop_pdfs, lines 391-395: the archive is closed and returned *)
Return ==
    /\ pc = "for_pdf" /\ pdf_index > Len(files)
    /\ pc' = "returned"
    /\ UNCHANGED <<files, pdf_index, pages, page_idx, zipf, loc, error, response,
                   render_calls, fn, arg, ret>>

(* router.crop_pdfs, lines 43-49: the archive is streamed back *)
Respond ==
    /\ pc = "returned"
    /\ response' = [status |-> 200, body |-> zipf]
    /\ pc' = "done"
    /\ UNCHANGED <<files, pdf_index, pages, page_idx, zipf, loc, error, render_calls,
                   fn, arg, ret>>

(* mutant of the router's except clause: the archive written so far is     *)
(* streamed back                                                           *)
RespondPartialArchive ==
    /\ pc = "raised"
    /\ response' = [status |-> 200, body |-> zipf]
    /\ pc' = "done"
    /\ UNCHANGED <<files, pdf_index, pages, page_idx, zipf, loc, error, render_calls,
                   fn, arg, ret>>

(* router.crop_pdfs, lines 50-51: any exception of the service becomes a 500 *)
RespondError ==
    /\ pc = "raised"
    /\ response' = [status |-> 500, body |-> <<>>]
    /\ pc' = "done"
    /\ UNCHANGED <<files, pdf_index, pages, page_idx, zipf, loc, error, render_calls,
                   fn, arg, ret>>

RenderCoarse == RenderPdf(CoarseImages, MaxPages)

RenderOnePage == RenderPdf(FineImages, 1)

(* requests of up to MaxFiles files with up to MaxPages pages each *)
Init == RequestInit(SeqsUpTo(FileNames, MaxFiles))

Next ==
    \/ Validate
    \/ RenderCoarse
    \/ CropPage
    \/ NextPdf
    \/ Return
    \/ Respond
    \/ RespondError

Spec == Init /\ [][Next]_vars

(* requests of one file of at most one page, with every OCR outcome *)
InitPage == RequestInit({<<<<"a", ".", "p", "d", "f">>>>})

NextPage ==
    \/ Validate
    \/ RenderOnePage
    \/ CropPage
    \/ NextPdf
    \/ Return
    \/ Respond
    \/ RespondError

SpecPage == InitPage /\ [][NextPage]_vars

(***************************************************************************)
(* _find_mailto_block applied to one page                                  *)
(***************************************************************************)
C3Input == [w |-> 1000, h |-> 1200, call |-> [raises |-> FALSE, words |-> <<MailToWord>>]]

MailtoInputs ==
    {C3Input}
    \cup UNION {{[w |-> d[1], h |-> d[2], call |-> c] :
                   c \in {[raises |-> TRUE, words |-> <<>>]}
                          \cup {[raises |-> FALSE, words |-> ws] :
                                  ws \in SeqsUpTo(WordPool(OcrTexts, d[1], d[2]), MaxWords)}} :
                d \in PageSizes}

InitMailto == RequestIdle /\ fn = "" /\ arg \in MailtoInputs /\ ret = <<>>

CallFindMailtoBlock ==
    /\ fn = ""
    /\ fn' = "_find_mailto_block"
    /\ ret' = <<_find_mailto_block(arg.call, arg.w, arg.h)>>
    /\ UNCHANGED <<arg, RequestVars>>

NextMailto == CallFindMailtoBlock

SpecMailto == InitMailto /\ [][NextMailto]_vars

\* C3 as claimed: on the 1000x1200 page with the single word "Mail to" at
\* (500, 800, 600, 820) the envelope has left <= 450 and bottom - top >= 120.
C3_Envelope_Original ==
    (fn = "_find_mailto_block" /\ arg = C3Input)
    => /\ ret[1] # None
       /\ ret[1][1] <= 450
       /\ ret[1][4] - ret[1][2] >= 120

\* C3 amended: on that page the envelope has left = 480, which is >= 450
\* (45% of W is a lower limit of left), and bottom - top >= 120.
C3_Envelope ==
    (fn = "_find_mailto_block" /\ arg = C3Input)
    => /\ ret[1] # None
       /\ ret[1][1] = 480 /\ ret[1][1] >= 450
       /\ ret[1][4] - ret[1][2] >= 120

\* C3 witness: the envelope computed for that page.
C3_Witness ==
    fn = "_find_mailto_block" /\ arg = C3Input /\ ret = << <<480, 788, 660, 908>> >>

(***************************************************************************)
(* Claims about the crop box of a page                                     *)
(***************************************************************************)
PageCropped == loc.crop_box # None

\* C1 as claimed: the crop box passed to the image crop satisfies
\* 0 <= x1 < x2 <= W and 0 <= y1 < y2 <= H, for every page size W, H >= 1
\* and every outcome of the anchor search.
C1_CropBoxInsidePage ==
    PageCropped =>
        /\ 0 <= loc.crop_box[1] /\ loc.crop_box[1] < loc.crop_box[3]
        /\ loc.crop_box[3] <= loc.img_w
        /\ 0 <= loc.crop_box[2] /\ loc.crop_box[2] < loc.crop_box[4]
        /\ loc.crop_box[4] <= loc.img_h

\* C2 as claimed: when the mail-to box was found, the height of the crop box
\* is at least 58% of the page height (the code's min_h = int(0.58 * H)).
C2_HeightFloor ==
    (PageCropped /\ loc.mailto_box # None)
    => loc.crop_box[4] - loc.crop_box[2] >= int_mul(58, 100, loc.img_h)

(* no word of the lower half of the page matches a mail-to keyword *)
NoLowerHalfMatch(words, h) ==
    \A i \in DOMAIN words :
        ~(/\ 2 * words[i].top >= h - (h % 2)
          /\ _fuzzy_match(strip(words[i].text), MailtoKeys, <<3, 4>>))

C9_InvalidBoxNeverCropped ==
    /\ PageCropped =>
          (loc.crop_box[1] < loc.crop_box[3] /\ loc.crop_box[2] < loc.crop_box[4])
    /\ error # "crop"

(***************************************************************************)
(* Claims about the archive and the response                               *)
(***************************************************************************)

(* the archive members written for document d, in archive order *)
MembersOf(d) == SelectSeq(zipf, LAMBDA m : m.data.pdf = d)

(* f"{base}_p{k:02d}.png" for k < 100, spelled out *)
ExpectedName(base, k) ==
    base \o <<"_", "p", DigitChars[(k \div 10) + 1], DigitChars[(k % 10) + 1]>>
         \o <<".", "p", "n", "g">>

C7_MembersInPageOrder ==
    /\ \A d \in 1..Len(files) :
          LET ms == MembersOf(d)
          IN  \A k \in DOMAIN ms :
                /\ ms[k].name = ExpectedName(base_of(files[d], d), k)
                /\ ms[k].data.page = k
    /\ pc = "for_page" =>
          /\ Len(MembersOf(pdf_index)) = page_idx - 1
          /\ page_idx - 1 <= Len(pages)
    /\ pc \in {"for_pdf", "returned"} /\ pdf_index > 1 =>
          Len(MembersOf(pdf_index - 1)) = Len(pages)
    /\ response.status = 200 => response.body = zipf

C7_AppendOnly == zipf' = zipf \/ \E m \in {zipf'[Len(zipf')]} : zipf' = Append(zipf, m)

\* C7: the archive of a document with n rendered pages holds exactly n
\* members for it, named base_p01.png, base_p02.png, ... in insertion order:
\* member k is the crop of page k and is appended after member k-1.
C7_PageOrder == []C7_MembersInPageOrder /\ [][C7_AppendOnly]_vars

\* C7 witness: a two-page document answered with an archive of two members,
\* a_p01.png then a_p02.png.
C7_Witness ==
    /\ response.status = 200
    /\ files = <<<<"a", ".", "p", "d", "f">>>>
    /\ Len(pages) = 2
    /\ Len(response.body) = 2
    /\ response.body[1].name = <<"a", "_", "p", "0", "1", ".", "p", "n", "g">>
    /\ response.body[2].name = <<"a", "_", "p", "0", "2", ".", "p", "n", "g">>

(* the crop box of a page, from its own size and OCR outcome alone *)
OwnBox(img) ==
    IF img.ocr.mailto.raises
    THEN <<(25 * img.w) \div 100, (12 * img.h) \div 100, img.w, (92 * img.h) \div 100>>
    ELSE page_locals(img).crop_box

\* C8: an OCR call that raises never makes crop_pdfs raise; the page gets no
\* anchors and the fallback crop box; and every member written for the
\* document is the crop of its own page at the box that page's size and OCR
\* outcome alone determine, whatever happened on the other pages.
C8_OcrFailureIsLocal ==
    /\ error # "ocr"
    /\ (PageCropped /\ loc.ocr.mailto.raises) =>
          (loc.mailto_box = None /\ loc.header_top = None)
    /\ pc = "for_page" =>
          LET ms == MembersOf(pdf_index)
          IN  /\ Len(ms) = page_idx - 1
              /\ \A k \in DOMAIN ms :
                    /\ ms[k].data.page = k
                    /\ ms[k].data.box = OwnBox(pages[k])

\* C8 witness: a document whose first page's OCR raises and whose second
\* page has both anchors: the first member has the fallback box, the second
\* the box computed from the anchors.
C8_Witness ==
    /\ pc = "for_page" /\ Len(pages) = 2 /\ page_idx = 3
    /\ pages[1].ocr.mailto.raises /\ ~pages[2].ocr.mailto.raises
    /\ MembersOf(pdf_index)[1].data.box = <<250, 144, 1000, 1104>>
    /\ MembersOf(pdf_index)[2].data.box = <<220, 88, 965, 912>>

(* every renderer invoked for the current document failed *)
RenderFailed ==
    render_calls # <<>> /\ \A i \in DOMAIN render_calls : render_calls[i][2] = "raise"

\* C10: when no renderer can render a document, crop_pdfs raises and returns
\* no archive, and the router answers with an error, not with a ZIP.
C10_RenderFailureIsFatal ==
    RenderFailed =>
        /\ error \in {"pdf2image", "unable_to_render"}
        /\ pc \in {"raised", "done"}
        /\ pc = "raised" => response = NoResponse
        /\ pc = "done" => response = [status |-> 500, body |-> <<>>]

\* C10 witness: the second document of a request fails to render after the
\* first one's pages were written; the answer is a 500 without archive.
C10_Witness ==
    /\ RenderFailed /\ Len(render_calls) = 2
    /\ pdf_index = 2 /\ zipf # <<>>
    /\ pc = "done" /\ response.status = 500

\* C11: when writing a member to the archive fails, the failure leaves
\* crop_pdfs: no archive is returned and the router answers 500 without a
\* body; an archive is only ever returned by a call in which nothing raised,
\* and then it holds a member for every page of the last document as well.
C11_WriteFailurePropagates ==
    /\ error = "archive_write" =>
          /\ pc \in {"raised", "done"}
          /\ response.status # 200
          /\ pc = "done" => response = [status |-> 500, body |-> <<>>]
    /\ response.status = 200 =>
          /\ error = ""
          /\ response.body = zipf
          /\ Len(MembersOf(Len(files))) = Len(pages)

\* C11 witness: the write of the second page of a document fails after the
\* first page was written; the answer is a 500 that carries no archive.
C11_Witness ==
    /\ error = "archive_write"
    /\ Len(pages) = 2 /\ page_idx = 2 /\ Len(zipf) = 1
    /\ pc = "done" /\ response = [status |-> 500, body |-> <<>>]

(* the members of document d in the archive the caller received *)
ReceivedOf(d) == SelectSeq(response.body, LAMBDA m : m.data.pdf = d)

\* C12 as claimed: the members produced for a document do not depend on the
\* other documents of the call, in particular not on whether those render:
\* when a later document cannot be rendered, the caller still receives the
\* members of the documents processed before it.
C12_DocumentsIndependent ==
    (pc = "done" /\ RenderFailed) =>
        \A d \in 1..(pdf_index - 1) : ReceivedOf(d) = MembersOf(d)

(***************************************************************************)
(* Determinism of the crop box and of the archive                          *)
(***************************************************************************)

(* two moves that generate every order of n words: the first two words    *)
(* change places, and the first word goes to the end                       *)
OrderMoves(n) ==
    {[i \in 1..n |-> IF i = 1 /\ n >= 2 THEN 2 ELSE IF i = 2 THEN 1 ELSE i],
     [i \in 1..n |-> (i % n) + 1]}

Reordered(ws, p) == [i \in 1..Len(ws) |-> ws[p[i]]]

(* the outcome of an OCR call with its words reported in order p *)
ReorderedCall(call, p) ==
    IF Len(call.words) = Len(p)
    THEN [raises |-> call.raises, words |-> Reordered(call.words, p)]
    ELSE call

(* the box of the page just cropped is also the box of the page whose     *)
(* words are reported after either move; the word lists of the pages are   *)
(* closed under the moves, so the box is the same for every order          *)
C13_OrderIndependent ==
    (PageCropped /\ pc = "for_page") =>
        \A p \in OrderMoves(Len(loc.ocr.mailto.words)) :
            page_locals([w |-> loc.img_w, h |-> loc.img_h,
                         ocr |-> [mailto |-> ReorderedCall(loc.ocr.mailto, p),
                                  header |-> ReorderedCall(loc.ocr.header, p)]]).crop_box
            = loc.crop_box

C13_MemberIsFunctionOfInput ==
    zipf' # zipf =>
        zipf' = Append(zipf,
                   [name |-> zip_name(base_of(files[pdf_index], pdf_index), page_idx),
                    data |-> [pdf |-> pdf_index, page |-> page_idx,
                              box |-> page_locals(pages[page_idx]).crop_box]])

HeaderTexts == {<<"N", "a", "m", "e">>, <<" ", "W", "A", "N", "T", "E", "D", " ">>,
                <<"W", "h", "e", "a", "t">>, <<" ">>}

HeaderHeights == {1, 19, 1200, 3300}

(* the words the OCR call can report on a page of height h: each text at  *)
(* the top, near the top, on the middle line and on the last line          *)
HeaderPool(h) ==
    {[text |-> t, left |-> 0, top |-> y, width |-> 1, height |-> 1] :
        t \in HeaderTexts, y \in {0, 5, h \div 2, h - 1}}

HeaderInputs ==
    UNION {{[h |-> h, call |-> c] :
              c \in {[raises |-> TRUE, words |-> <<>>]}
                     \cup {[raises |-> FALSE, words |-> ws] :
                             ws \in SeqsUpTo(HeaderPool(h), MaxWords)}} :
           h \in HeaderHeights}

InitHeader == RequestIdle /\ fn = "" /\ arg \in HeaderInputs /\ ret = <<>>

CallFindHeaderTop ==
    /\ fn = ""
    /\ fn' = "_find_header_top"
    /\ ret' = <<_find_header_top(arg.call, arg.h)>>
    /\ UNCHANGED <<arg, RequestVars>>

NextHeader == CallFindHeaderTop

SpecHeader == InitHeader /\ [][NextHeader]_vars

WithoutWords(call, Upper(_)) ==
    [raises |-> call.raises, words |-> SelectSeq(call.words, LAMBDA wd : ~Upper(wd))]

\* C15 as claimed: words whose top is less than 50% of the page height
\* (2 * top < H) never influence _find_mailto_block: the result equals the
\* result on the list without them.
C15_UpperHalfIgnored_Original ==
    fn = "_find_mailto_block" =>
        ret[1] = _find_mailto_block(
                     WithoutWords(arg.call, LAMBDA wd : 2 * wd.top < arg.h), arg.w, arg.h)

\* C15 amended: words whose top is less than int(0.5 * H), half the page
\* height rounded down, never influence _find_mailto_block: the result
\* equals the result on the list without them, even when they match a
\* mail-to keyword.
C15_UpperHalfIgnored ==
    fn = "_find_mailto_block" =>
        ret[1] = _find_mailto_block(
                     WithoutWords(arg.call, LAMBDA wd : wd.top < arg.h \div 2), arg.w, arg.h)

\* C15 witness: "Mail to" on the line above the middle and on the last line
\* of a 1000x1200 page; the result is the envelope of the lower word alone.
C15_Witness ==
    /\ fn = "_find_mailto_block" /\ arg.w = 1000 /\ arg.h = 1200
    /\ arg.call.words =
          <<[text |-> <<"M", "a", "i", "l", " ", "t", "o">>, left |-> 999, top |-> 599, width |-> 1, height |-> 1],
            [text |-> <<"M", "a", "i", "l", " ", "t", "o">>, left |-> 999, top |-> 1199, width |-> 1, height |-> 1]>>
    /\ ret = << <<979, 1187, 1000, 1200>> >>

(* the box of every reported word has a positive size and lies inside the page *)
WordsInsidePage(words, w, h) ==
    \A i \in DOMAIN words :
        WellFormed(<<words[i].left, words[i].top, words[i].left + words[i].width,
                     words[i].top + words[i].height>>, w, h)

\* C16 as claimed: every box returned by _find_mailto_block satisfies
\* 0 <= x1 < x2 <= W and 0 <= y1 < y2 <= H, for every page size and every
\* list of words whose own boxes lie inside the page.
C16_MailtoBoxWellFormed ==
    (/\ fn = "_find_mailto_block" /\ ret[1] # None
     /\ WordsInsidePage(arg.call.words, arg.w, arg.h))
    => WellFormed(ret[1], arg.w, arg.h)

\* C17: the minimum-height rule of _find_mailto_block only moves the bottom
\* edge: the returned top is max(0, min(ys) - int(0.01 * H)) over the tops ys
\* of the collected words, and bottom - top >= int(0.10 * H) unless bottom
\* equals H.
C17_MinHeightMovesBottom ==
    (fn = "_find_mailto_block" /\ ret[1] # None) =>
        LET ys == {b[2] : b \in MailtoBoxes(arg.call.words, arg.h)}
            y0 == CHOOSE y \in ys : \A z \in ys : y <= z
        IN  /\ ys # {}
            /\ ret[1][2] = (IF y0 - (arg.h \div 100) > 0 THEN y0 - (arg.h \div 100) ELSE 0)
            /\ \/ ret[1][4] - ret[1][2] >= arg.h \div 10
               \/ ret[1][4] = arg.h

\* C17 witness: a 1-pixel word "Mail to" on the middle line of a 1000x1200
\* page: the padded envelope is 49 pixels high and its bottom is moved from
\* 637 to 708, the top stays at 588.
C17_Witness ==
    /\ fn = "_find_mailto_block" /\ arg.w = 1000 /\ arg.h = 1200
    /\ arg.call.words =
          <<[text |-> <<"M", "a", "i", "l", " ", "t", "o">>, left |-> 0, top |-> 600, width |-> 1, height |-> 1]>>
    /\ ret[1][2] = 588 /\ ret[1][4] = 708

(***************************************************************************)
(* The crop box on the primary path                                        *)
(***************************************************************************)

(* n/d of x, rounded down to a pixel *)
Fraction(n, d, x) == (n * x) \div d

(* the crop box the formulas of the claim give for a mail-to box and a     *)
(* header top on a W x H page                                              *)
SpecifiedBox(mb, header_top, W, H) ==
    LET lo(a, b) == IF a <= b THEN a ELSE b
        hi(a, b) == IF a >= b THEN a ELSE b
        left == hi(Fraction(22, 100, W), mb[1] - Fraction(30, 100, W))
        right == lo(W, hi(mb[3] + Fraction(10, 100, W), Fraction(965, 1000, W)))
        bottom == lo(H, mb[4] + Fraction(4, 1000, H))
        header_cap == Fraction(14, 100, H)
        top_target == lo(IF header_top = None THEN header_cap ELSE header_top[1], header_cap)
        top0 == hi(0, lo(top_target, hi(0, bottom - Fraction(64, 100, H))))
        top == IF bottom - top0 < Fraction(58, 100, H)
               THEN hi(0, bottom - Fraction(58, 100, H)) ELSE top0
    IN  <<left, top, right, bottom>>

\* C18: on the primary path the crop box equals the specified formulas for
\* the mail-to box (mx1, my1, mx2, my2) and header_top of the page:
\* left = max(22%W, mx1 - 30%W), right = min(W, max(mx2 + 10%W, 96.5%W)),
\* bottom = min(H, my2 + 0.4%H), top = max(0, min(top_target, max(0, bottom -
\* 64%H))), pulled up to max(0, bottom - 58%H) when the height is below 58%H,
\* with top_target = min(header_top or header_cap, header_cap) and
\* header_cap = 14%H; each percentage is rounded down to a pixel and
\* header_cap stands in for header_top only when no header was found.
C18_PrimaryFormulas ==
    (PageCropped /\ loc.mailto_box # None) =>
        loc.crop_box = SpecifiedBox(loc.mailto_box, loc.header_top, loc.img_w, loc.img_h)

\* C18 witness: a 1000x1200 page with "Name" in the top left corner and
\* "Mail to" in the bottom right corner: the header top is 0 and the crop
\* box is (679, 0, 1000, 1200).
C18_Witness ==
    /\ PageCropped
    /\ loc.img_w = 1000 /\ loc.img_h = 1200
    /\ loc.mailto_box = <<979, 1187, 1000, 1200>>
    /\ loc.header_top = <<0>>
    /\ loc.crop_box = <<679, 0, 1000, 1200>>

(***************************************************************************)
(* The PDF splitters: PDFCustomSplitterService.split_by_page_count and     *)
(* PDFPairSplitterService.split_page_pairs.  A page of the input PDF is    *)
(* its 1-based number; a written file is [path, pages]; ret holds the      *)
(* locals of the running call: the loop variable i, output_files, the      *)
(* members of the ZIP and the returned dictionary.                         *)
(***************************************************************************)
MaxTotalPages == 9
MaxPagesPerFile == 4

(* os.path.join(folder, name) for a relative name *)
path_join(folder, name) == folder \o <<"/">> \o name

(* mutant of the group: the last group is not cut at the last page *)
GroupAtUnclamped(i, total_pages, pages_per_file, base_name) ==
    [output_filename |->
        base_name \o <<"_", "G", "r", "o", "u", "p">> \o decimal((i \div pages_per_file) + 1)
                  \o <<"_", "P", "a", "g", "e", "s">> \o decimal(i + 1) \o <<"-">> \o decimal(i + pages_per_file)
                  \o PdfSuffix,
     pages |-> [j \in 1..pages_per_file |-> i + j]]

(* one iteration of the loop of split_by_page_count: the name and the     *)
(* pages of the group that starts at 0-based index i                       *)
group_at(i, total_pages, pages_per_file, base_name) ==
    LET end_page == Min2(i + pages_per_file, total_pages)
        group_number == (i \div pages_per_file) + 1
        start_page == i + 1
    IN  [output_filename |->
            base_name \o <<"_", "G", "r", "o", "u", "p">> \o decimal(group_number)
                      \o <<"_", "P", "a", "g", "e", "s">> \o decimal(start_page) \o <<"-">> \o decimal(end_page)
                      \o PdfSuffix,
         pages |-> [j \in 1..(end_page - i) |-> i + j]]

(* mutant of the pair: the second page is added without the existence test *)
PairAtAlwaysTwo(i, total_pages, base_name) ==
    [output_filename |-> base_name \o <<"_", "P", "a", "r", "t">> \o decimal((i \div 2) + 1) \o PdfSuffix,
     pages |-> <<i + 1, i + 2>>]

(* one iteration of the loop of split_page_pairs *)
pair_at(i, total_pages, base_name) ==
    LET part_number == (i \div 2) + 1
    IN  [output_filename |-> base_name \o <<"_", "P", "a", "r", "t">> \o decimal(part_number) \o PdfSuffix,
         pages |-> IF i + 1 < total_pages THEN <<i + 1, i + 2>> ELSE <<i + 1>>]

(* the ZIP written from output_files: zipf.write(path, os.path.basename(path)) *)
zip_of(output_files) ==
    [k \in DOMAIN output_files |->
        [name |-> basename(output_files[k].path), pages |-> output_files[k].pages]]

SplitPaths == {<<"t", "/", "a", ".", "p", "d", "f">>, <<"t", "/", "b", ".", "v", "2", ".", "p", "d", "f">>}

SplitInputs ==
    {[pdf_path |-> f, output_folder |-> splitext_root(f), total_pages |-> n,
      pages_per_file |-> p] :
        f \in SplitPaths, n \in 0..MaxTotalPages, p \in 1..MaxPagesPerFile}

(* split_page_pairs takes no page count *)
PairInputs ==
    {[pdf_path |-> f, output_folder |-> splitext_root(f), total_pages |-> n] :
        f \in SplitPaths, n \in 0..MaxTotalPages}

InitSplit == RequestIdle /\ fn = "" /\ arg \in SplitInputs \cup PairInputs /\ ret = <<>>

SplitFrame == UNCHANGED <<files, pdf_index, pages, page_idx, zipf, loc, response, render_calls>>

(* split_by_page_count, lines 26-34 *)
CallSplitByPageCount ==
    /\ pc = "idle" /\ fn = ""
    /\ arg \in SplitInputs
    /\ fn' = "split_by_page_count"
    /\ pc' = "for_i"
    /\ ret' = [i |-> 0, output_files |-> <<>>, zip |-> <<>>, result |-> None]
    /\ UNCHANGED <<arg, error>>
    /\ SplitFrame

(* split_by_page_count, lines 37-62: one group is written; the write can  *)
(* raise, and a file that was written exists                               *)
WriteGroup ==
    /\ pc = "for_i" /\ fn = "split_by_page_count"
    /\ ret.i < arg.total_pages
    /\ LET g == group_at(ret.i, arg.total_pages, arg.pages_per_file,
                         splitext_root(basename(arg.pdf_path)))
       IN  \E write \in {"ok", "raise"} :
              IF write = "raise"
              THEN /\ error' = "OSError" /\ pc' = "raised" /\ UNCHANGED ret
              ELSE /\ ret' = [ret EXCEPT
                                 !.i = @ + arg.pages_per_file,
                                 !.output_files =
                                     Append(@, [path |-> path_join(arg.output_folder,
                                                                   g.output_filename),
                                                pages |-> g.pages])]
                   /\ UNCHANGED <<pc, error>>
    /\ UNCHANGED <<fn, arg>>
    /\ SplitFrame

(* split_by_page_count, lines 64-78: the ZIP is written and the dictionary *)
(* returned                                                                *)
ZipGroups ==
    /\ pc = "for_i" /\ fn = "split_by_page_count"
    /\ ret.i >= arg.total_pages
    /\ LET base_name == splitext_root(basename(arg.pdf_path))
           zip_filename == base_name \o <<"_", "c", "u", "s", "t", "o", "m", "_", "s", "p", "l", "i", "t", ".", "z", "i", "p">>
       IN  ret' = [ret EXCEPT
                      !.zip = zip_of(ret.output_files),
                      !.result = <<[output_files |-> [k \in DOMAIN ret.output_files |->
                                                         ret.output_files[k].path],
                                    zip_path |-> path_join(arg.output_folder, zip_filename),
                                    zip_filename |-> zip_filename,
                                    pages_per_file |-> arg.pages_per_file,
                                    total_groups |-> Len(ret.output_files)]>>]
    /\ pc' = "returned"
    /\ UNCHANGED <<fn, arg, error>>
    /\ SplitFrame

(* split_page_pairs, lines 25-33 *)
CallSplitPagePairs ==
    /\ pc = "idle" /\ fn = ""
    /\ arg \in PairInputs
    /\ fn' = "split_page_pairs"
    /\ pc' = "for_i"
    /\ ret' = [i |-> 0, output_files |-> <<>>, zip |-> <<>>, result |-> None]
    /\ UNCHANGED <<arg, error>>
    /\ SplitFrame

(* split_page_pairs, lines 36-62: one part is written *)
WritePart ==
    /\ pc = "for_i" /\ fn = "split_page_pairs"
    /\ ret.i < arg.total_pages
    /\ LET g == pair_at(ret.i, arg.total_pages, splitext_root(basename(arg.pdf_path)))
       IN  \E write \in {"ok", "raise"} :
              IF write = "raise"
              THEN /\ error' = "OSError" /\ pc' = "raised" /\ UNCHANGED ret
              ELSE /\ ret' = [ret EXCEPT
                                 !.i = @ + 2,
                                 !.output_files =
                                     Append(@, [path |-> path_join(arg.output_folder,
                                                                   g.output_filename),
                                                pages |-> g.pages])]
                   /\ UNCHANGED <<pc, error>>
    /\ UNCHANGED <<fn, arg>>
    /\ SplitFrame

(* split_page_pairs, lines 64-76 *)
ZipParts ==
    /\ pc = "for_i" /\ fn = "split_page_pairs"
    /\ ret.i >= arg.total_pages
    /\ LET base_name == splitext_root(basename(arg.pdf_path))
           zip_filename == base_name \o <<"_", "s", "p", "l", "i", "t", ".", "z", "i", "p">>
       IN  ret' = [ret EXCEPT
                      !.zip = zip_of(ret.output_files),
                      !.result = <<[output_files |-> [k \in DOMAIN ret.output_files |->
                                                         ret.output_files[k].path],
                                    zip_path |-> path_join(arg.output_folder, zip_filename),
                                    zip_filename |-> zip_filename]>>]
    /\ pc' = "returned"
    /\ UNCHANGED <<fn, arg, error>>
    /\ SplitFrame

NextSplit ==
    \/ CallSplitByPageCount
    \/ WriteGroup
    \/ ZipGroups
    \/ CallSplitPagePairs
    \/ WritePart
    \/ ZipParts

SpecSplit == InitSplit /\ [][NextSplit]_vars

(***************************************************************************)
(* Claims about the splitters                                              *)
(***************************************************************************)

(* ceil(n / p) *)
CeilDiv(n, p) == (n + p - 1) \div p

(* the number of places at which page n occurs in the members of a ZIP *)
Occurrences(zip, n) ==
    Cardinality({kj \in UNION {{<<k, j>> : j \in DOMAIN zip[k].pages} : k \in DOMAIN zip} :
                    zip[kj[1]].pages[kj[2]] = n})

\* C19: split_by_page_count on a PDF of N pages with pages_per_file = p >= 1
\* produces exactly ceil(N/p) groups; group k holds the pages (k-1)*p+1 ..
\* min(k*p, N) in original order and is named
\* base_Group{k}_Pages{start}-{end}.pdf; every page is in exactly one group
\* and total_groups is the number of files in the ZIP.
C19_GroupsPartitionPages ==
    (fn = "split_by_page_count" /\ pc = "returned") =>
        LET N == arg.total_pages
            p == arg.pages_per_file
            base == splitext_root(basename(arg.pdf_path))
            first(k) == (k - 1) * p + 1
            last(k) == IF k * p <= N THEN k * p ELSE N
        IN  /\ Len(ret.zip) = CeilDiv(N, p)
            /\ ret.result[1].total_groups = Len(ret.zip)
            /\ \A k \in DOMAIN ret.zip :
                  /\ ret.zip[k].pages = [j \in 1..(last(k) - first(k) + 1) |-> first(k) + j - 1]
                  /\ ret.zip[k].name =
                        base \o <<"_", "G", "r", "o", "u", "p">> \o decimal(k) \o <<"_", "P", "a", "g", "e", "s">> \o decimal(first(k))
                             \o <<"-">> \o decimal(last(k)) \o PdfSuffix
            /\ \A n \in 1..N : Occurrences(ret.zip, n) = 1

\* C19 witness: t/a.pdf of 5 pages split by 2 gives three groups, the last
\* one a_Group3_Pages5-5.pdf with page 5 alone.
C19_Witness ==
    /\ fn = "split_by_page_count" /\ pc = "returned"
    /\ arg.pdf_path = <<"t", "/", "a", ".", "p", "d", "f">> /\ arg.total_pages = 5 /\ arg.pages_per_file = 2
    /\ Len(ret.zip) = 3
    /\ ret.zip[1] = [name |-> <<"a", "_", "G", "r", "o", "u", "p", "1", "_", "P", "a", "g", "e", "s", "1", "-", "2", ".", "p", "d", "f">>, pages |-> <<1, 2>>]
    /\ ret.zip[3] = [name |-> <<"a", "_", "G", "r", "o", "u", "p", "3", "_", "P", "a", "g", "e", "s", "5", "-", "5", ".", "p", "d", "f">>, pages |-> <<5>>]

\* C20: split_page_pairs on a PDF of N pages produces exactly ceil(N/2)
\* parts; part k, named base_Part{k}.pdf, holds the pages 2k-1 and 2k in
\* order, the last part the single page N when N is odd; every page is in
\* exactly one part, and the grouping is that of split_by_page_count with
\* pages_per_file = 2.
C20_PairsPartitionPages ==
    (fn = "split_page_pairs" /\ pc = "returned") =>
        LET N == arg.total_pages
            base == splitext_root(basename(arg.pdf_path))
        IN  /\ Len(ret.zip) = CeilDiv(N, 2)
            /\ \A k \in DOMAIN ret.zip :
                  /\ ret.zip[k].pages =
                        (IF 2 * k <= N THEN <<2 * k - 1, 2 * k>> ELSE <<N>>)
                  /\ ret.zip[k].name = base \o <<"_", "P", "a", "r", "t">> \o decimal(k) \o PdfSuffix
                  /\ ret.zip[k].pages = group_at(2 * (k - 1), N, 2, base).pages
            /\ \A n \in 1..N : Occurrences(ret.zip, n) = 1

\* C20 witness: t/a.pdf of 5 pages gives three parts, a_Part3.pdf with page
\* 5 alone.
C20_Witness ==
    /\ fn = "split_page_pairs" /\ pc = "returned"
    /\ arg.pdf_path = <<"t", "/", "a", ".", "p", "d", "f">> /\ arg.total_pages = 5
    /\ Len(ret.zip) = 3
    /\ ret.zip[2] = [name |-> <<"a", "_", "P", "a", "r", "t", "2", ".", "p", "d", "f">>, pages |-> <<3, 4>>]
    /\ ret.zip[3] = [name |-> <<"a", "_", "P", "a", "r", "t", "3", ".", "p", "d", "f">>, pages |-> <<5>>]

(***************************************************************************)
(* The splitter endpoints: split_pdf_custom and split_pdf_pairs, two       *)
(* requests served by one event loop.  arg[r] is the upload of request r,  *)
(* pc[r] its position, error[r] the exception it raised, response[r] what  *)
(* its client received; ret holds the shared DOWNLOADS_DIR (file name to   *)
(* ZIP), the files each request wrote into its own temporary directory and *)
(* the path of the FileResponse it returned.                               *)
(* A handler runs without interruption from one await to the next; the     *)
(* file of a FileResponse is read when the response is sent, after the     *)
(* handler returned.                                                       *)
(***************************************************************************)
Requests == {1, 2}

(* the whole of split_by_page_count: the ZIP it writes for a PDF *)
split_by_page_count(pdf_path, output_folder, pages_per_file, content) ==
    LET base_name == splitext_root(basename(pdf_path))
        n == content.total_pages
        groups == [k \in 1..((n + pages_per_file - 1) \div pages_per_file) |->
                      group_at((k - 1) * pages_per_file, n, pages_per_file, base_name)]
    IN  [zip_filename |-> base_name \o <<"_", "c", "u", "s", "t", "o", "m", "_", "s", "p", "l", "i", "t", ".", "z", "i", "p">>,
         zip |-> [of |-> content,
                  members |-> zip_of([k \in DOMAIN groups |->
                                  [path |-> path_join(output_folder, groups[k].output_filename),
                                   pages |-> groups[k].pages]])]]

(* the whole of split_page_pairs *)
split_page_pairs(pdf_path, output_folder, content) ==
    LET base_name == splitext_root(basename(pdf_path))
        n == content.total_pages
        parts == [k \in 1..((n + 1) \div 2) |-> pair_at(2 * (k - 1), n, base_name)]
    IN  [zip_filename |-> base_name \o <<"_", "s", "p", "l", "i", "t", ".", "z", "i", "p">>,
         zip |-> [of |-> content,
                  members |-> zip_of([k \in DOMAIN parts |->
                                  [path |-> path_join(output_folder, parts[k].output_filename),
                                   pages |-> parts[k].pages]])]]

UploadNames == {<<"a", ".", "p", "d", "f">>, <<"a", ".", "t", "x", "t">>, <<>>}

(* the uploads request r can make: its PDFs differ from the other request's *)
Uploads(r) ==
    {[endpoint |-> "split-custom", filename |-> f, content |-> [id |-> r, total_pages |-> n],
      pages_per_file |-> p] : f \in UploadNames, n \in {1, 3}, p \in {0, 2}}
    \cup {[endpoint |-> "split-pairs", filename |-> f,
           content |-> [id |-> r, total_pages |-> n]] : f \in UploadNames, n \in {1, 3}}

InitEndpoint ==
    /\ files = <<>> /\ pdf_index = 0 /\ pages = <<>> /\ page_idx = 0 /\ zipf = <<>>
    /\ loc = NoLocals /\ render_calls = <<>> /\ fn = ""
    /\ arg \in [Requests -> UNION {Uploads(r) : r \in Requests}]
    /\ \A r \in Requests : arg[r] \in Uploads(r)
    /\ pc = [r \in Requests |-> "router"]
    /\ error = [r \in Requests |-> ""]
    /\ response = [r \in Requests |-> NoResponse]
    /\ ret = [DOWNLOADS_DIR |-> <<>>, written |-> [r \in Requests |-> {}],
              file_response |-> [r \in Requests |-> None]]

EndpointFrame == UNCHANGED <<files, pdf_index, pages, page_idx, zipf, loc, render_calls, fn, arg>>

(* the status of the HTTPException that leaves the handler when the       *)
(* validation fails, 0 when it passes: the HTTPException(400) is raised   *)
(* inside the outer try and HTTPException is an Exception, so the clause   *)
(* except Exception  replaces it by an HTTPException(500)                  *)
validation_status(upload) ==
    IF upload.filename = <<>> \/ ~EndsWith(upload.filename, PdfSuffix) THEN 500
    ELSE IF upload.endpoint = "split-custom" /\ upload.pages_per_file < 1 THEN 500
    ELSE 0

(* from the start of the handler to  await pdf_file.read() *)
ValidateUpload(r) ==
    /\ pc[r] = "router"
    /\ LET status == validation_status(arg[r])
       IN  IF status # 0
           THEN /\ pc' = [pc EXCEPT ![r] = "done"]
                /\ error' = [error EXCEPT ![r] = "HTTPException"]
                /\ response' = [response EXCEPT ![r] = [status |-> status, body |-> <<>>]]
           ELSE /\ pc' = [pc EXCEPT ![r] = "read"]
                /\ UNCHANGED <<error, response>>
    /\ UNCHANGED ret
    /\ EndpointFrame

(* from the await to  return FileResponse(...): the upload is saved, split *)
(* and zipped in the request's temporary directory and the ZIP copied to   *)
(* DOWNLOADS_DIR under its own file name; an I/O error removes the         *)
(* temporary directory and becomes a 500                                   *)
SplitAndCopy(r) ==
    /\ pc[r] = "read"
    /\ LET temp_dir == <<"t", "m", "p">> \o decimal(r)
           pdf_path == path_join(temp_dir, arg[r].filename)
           output_folder == path_join(temp_dir, splitext_root(arg[r].filename))
           result == IF arg[r].endpoint = "split-custom"
                     THEN split_by_page_count(pdf_path, output_folder,
                                              arg[r].pages_per_file, arg[r].content)
                     ELSE split_page_pairs(pdf_path, output_folder, arg[r].content)
           persistent_zip == result.zip_filename
           dir == ret.DOWNLOADS_DIR
       IN  \E io \in {"ok", "raise"} :
              IF io = "raise"
              THEN /\ pc' = [pc EXCEPT ![r] = "done"]
                   /\ error' = [error EXCEPT ![r] = "OSError"]
                   /\ response' = [response EXCEPT ![r] = [status |-> 500, body |-> <<>>]]
                   /\ UNCHANGED ret
              ELSE /\ ret' = [DOWNLOADS_DIR |->
                                 [f \in DOMAIN dir \cup {persistent_zip} |->
                                     IF f = persistent_zip THEN result.zip ELSE dir[f]],
                              written |-> [ret.written EXCEPT
                                              ![r] = {pdf_path,
                                                      path_join(output_folder,
                                                                result.zip_filename)}],
                              file_response |-> [ret.file_response EXCEPT
                                                    ![r] = <<persistent_zip>>]]
                   /\ pc' = [pc EXCEPT ![r] = "send"]
                   /\ UNCHANGED <<error, response>>
    /\ EndpointFrame

(* the FileResponse is sent: the file at its path is read now *)
SendFile(r) ==
    /\ pc[r] = "send"
    /\ response' = [response EXCEPT
                       ![r] = [status |-> 200,
                               body |-> ret.DOWNLOADS_DIR[ret.file_response[r][1]]]]
    /\ pc' = [pc EXCEPT ![r] = "done"]
    /\ UNCHANGED <<error, ret>>
    /\ EndpointFrame

NextEndpoint ==
    \E r \in Requests :
        \/ ValidateUpload(r)
        \/ SplitAndCopy(r)
        \/ SendFile(r)

SpecEndpoint == InitEndpoint /\ [][NextEndpoint]_vars

(* request r is one the validation must reject *)
BadRequest(r) ==
    \/ arg[r].filename = <<>>
    \/ ~EndsWith(arg[r].filename, PdfSuffix)
    \/ arg[r].endpoint = "split-custom" /\ arg[r].pages_per_file < 1

\* C21 as claimed: a request to the custom splitter endpoint with
\* pages_per_file < 1, or with a file name that does not end in .pdf, is
\* answered with status 400, and nothing was written or split for it.
C21_BadRequestGets400 ==
    \A r \in Requests :
        (arg[r].endpoint = "split-custom" /\ BadRequest(r) /\ pc[r] = "done") =>
            /\ response[r].status = 400
            /\ ret.written[r] = {}

(***************************************************************************)
(* FileMergerService.merge_files.  An extracted file is [path, content];   *)
(* the merged output is the sequence of the contents it was built from.    *)
(***************************************************************************)
MaxArchiveFiles == 3

(* int() of a string of decimal digits *)
RECURSIVE int_of(_)
int_of(ds) ==
    IF ds = <<>> THEN 0
    ELSE 10 * int_of(SubSeq(ds, 1, Len(ds) - 1))
         + (CHOOSE d \in 0..9 : DigitChars[d + 1] = ds[Len(ds)])

(* re.search(r'part(\d+)', filename.lower()), scanning from position i:    *)
(* the digits of the leftmost match, taken greedily; None without a match  *)
RECURSIVE search_part(_, _)
search_part(s, i) ==
    IF i + 4 > Len(s) THEN None
    ELSE IF SubSeq(s, i, i + 3) = <<"p", "a", "r", "t">> /\ s[i + 4] \in Range(DigitChars)
    THEN LET stop == CHOOSE j \in (i + 4)..Len(s) :
                        /\ \A k \in (i + 4)..j : s[k] \in Range(DigitChars)
                        /\ (j = Len(s) \/ s[j + 1] \notin Range(DigitChars))
         IN  <<SubSeq(s, i + 4, stop)>>
    ELSE search_part(s, i + 1)

(* FileMergerService.extract_part_number *)
extract_part_number(filename) ==
    LET match == search_part(lower(filename), 1)
    IN  IF match # None THEN int_of(match[1]) ELSE 0

(* mutant of the sort: the files are taken in extraction order *)
SortFilesNotAtAll(fs) == fs

(* sorted(files, key=...): a stable sort, here by insertion of each file   *)
(* behind the files whose key does not exceed its own                      *)
RECURSIVE sort_files_by_part(_)
sort_files_by_part(fs) ==
    IF fs = <<>> THEN <<>>
    ELSE LET done == sort_files_by_part(SubSeq(fs, 1, Len(fs) - 1))
             f == fs[Len(fs)]
             key(g) == extract_part_number(basename(g.path))
             n == Cardinality({k \in DOMAIN done : key(done[k]) <= key(f)})
         IN  SubSeq(done, 1, n) \o <<f>> \o SubSeq(done, n + 1, Len(done))

(* os.path.splitext(path)[1] *)
splitext_ext(path) ==
    LET b == basename(path)
    IN  SubSeq(b, Len(splitext_root(b)) + 1, Len(b))

ValidExts == {<<".", "p", "d", "f">>, <<".", "d", "o", "c", "x">>}

(* FileMergerService.filter_files_by_extension *)
filter_files_by_extension(fs) ==
    SelectSeq(fs, LAMBDA f : lower(splitext_ext(f.path)) \in ValidExts)

(* FileMergerService.merge_files after the extraction: the exception it   *)
(* raises ("" when it returns), the extension of the output and the        *)
(* contents merged into it, in order.  A file that is not of the output's  *)
(* type makes its reader raise.                                            *)
merge_files(extracted) ==
    LET filtered == filter_files_by_extension(extracted)
        sorted_files == sort_files_by_part(filtered)
        ext == lower(splitext_ext(sorted_files[1].path))
    IN  IF filtered = <<>>
        THEN [raised |-> "No valid PDF or DOCX files found.", ext |-> <<>>, merged |-> <<>>]
        ELSE IF Len(sorted_files) > 1
                /\ \E k \in DOMAIN sorted_files : lower(splitext_ext(sorted_files[k].path)) # ext
        THEN [raised |-> "reader", ext |-> ext, merged |-> <<>>]
        ELSE [raised |-> "", ext |-> ext,
              merged |-> [k \in DOMAIN sorted_files |-> sorted_files[k].content]]

ArchiveNames == {<<"P", "a", "r", "t", "1", "0", ".", "p", "d", "f">>, <<"p", "a", "r", "t", "2", ".", "p", "d", "f">>, <<"b", ".", "p", "d", "f">>, <<"d", "/", "a", "_", "p", "a", "r", "t", "2", "b", ".", "P", "D", "F">>, <<"p", "a", "r", "t", "1", ".", "d", "o", "c", "x">>, <<"p", "a", "r", "t", "3", ".", "t", "x", "t">>}

(* the files extracted from an archive: names in extraction order, each   *)
(* file's content is its place in that order                               *)
MergeInputs ==
    {[k \in DOMAIN names |-> [path |-> path_join(<<"e", "x", "t", "r", "a", "c", "t", "e", "d">>, names[k]), content |-> k]] :
        names \in SeqsUpTo(ArchiveNames, MaxArchiveFiles)}

InitMerge == RequestIdle /\ fn = "" /\ arg \in MergeInputs /\ ret = <<>>

CallMergeFiles ==
    /\ fn = ""
    /\ fn' = "merge_files"
    /\ ret' = <<merge_files(arg)>>
    /\ UNCHANGED <<arg, RequestVars>>

NextMerge == CallMergeFiles

SpecMerge == InitMerge /\ [][NextMerge]_vars

(* the part number found in a file name: the digits that follow the first *)
(* "part" (in any case) that digits follow, 0 when there is none           *)
PartNumberIn(name) ==
    LET s == lower(name)
        at(i) == /\ i + 4 <= Len(s)
                 /\ <<s[i], s[i + 1], s[i + 2], s[i + 3]>> = <<"p", "a", "r", "t">>
                 /\ s[i + 4] \in Range(DigitChars)
        starts == {i \in DOMAIN s : at(i)}
    IN  IF starts = {} THEN 0
        ELSE LET i == CHOOSE i \in starts : \A j \in starts : i <= j
                 run == {j \in (i + 4)..Len(s) : \A k \in (i + 4)..j : s[k] \in Range(DigitChars)}
             IN  int_of(SubSeq(s, i + 4, i + 3 + Cardinality(run)))

\* C22: merge_files merges the archive's PDF or DOCX files in ascending
\* order of the part number found in each file name; files without a part
\* number count as part 0 and come first, files with equal part numbers
\* keep their extraction order, and the merged output holds the inputs'
\* content in exactly that order.
C22_MergedInPartOrder ==
    (fn = "merge_files" /\ ret[1].raised = "") =>
        LET out == ret[1].merged
            part(c) == PartNumberIn(basename(arg[c].path))
            valid == {c \in DOMAIN arg : lower(splitext_ext(arg[c].path)) \in ValidExts}
        IN  /\ {out[k] : k \in DOMAIN out} = valid
            /\ Len(out) = Cardinality(valid)
            /\ \A k \in 1..(Len(out) - 1) :
                  \/ part(out[k]) < part(out[k + 1])
                  \/ part(out[k]) = part(out[k + 1]) /\ out[k] < out[k + 1]

\* C22 witness: Part10.pdf, part2.pdf and b.pdf, extracted in that order,
\* are merged as b.pdf, part2.pdf, Part10.pdf.
C22_Witness ==
    /\ fn = "merge_files"
    /\ Len(arg) = 3
    /\ arg[1].path = <<"e", "x", "t", "r", "a", "c", "t", "e", "d", "/", "P", "a", "r", "t", "1", "0", ".", "p", "d", "f">> /\ arg[2].path = <<"e", "x", "t", "r", "a", "c", "t", "e", "d", "/", "p", "a", "r", "t", "2", ".", "p", "d", "f">> /\ arg[3].path = <<"e", "x", "t", "r", "a", "c", "t", "e", "d", "/", "b", ".", "p", "d", "f">>
    /\ ret[1].raised = "" /\ ret[1].merged = <<3, 2, 1>>

(***************************************************************************)
(* Text correction: TextCorrectionService.correct_text                     *)
(* (app/services/text_correction/service.py).  fuzz.ratio and              *)
(* fuzz.partial_ratio are fuzzywuzzy's, computed over                      *)
(* difflib.SequenceMatcher and rounded to an int by int(round(.)).         *)
(***************************************************************************)
MaxTextWords == 3

(* the characters the pattern [\w] matches *)
WordClass == Range(UpperChars) \cup Range(LowerChars) \cup Range(DigitChars) \cup {"_"}

(* the length of the longest prefix of s whose characters are all in S *)
RECURSIVE RunOf(_, _)
RunOf(s, S) == IF s # <<>> /\ Head(s) \in S THEN 1 + RunOf(Tail(s), S) ELSE 0

(* re.findall(r'([\w]+|[^\w\s]|\s+)', text): runs of word characters, runs *)
(* of whitespace, and every other character on its own                     *)
RECURSIVE findall_tokens(_)
findall_tokens(text) ==
    IF text = <<>> THEN <<>>
    ELSE LET n == IF Head(text) \in WordClass THEN RunOf(text, WordClass)
                  ELSE IF Head(text) \in Whitespace THEN RunOf(text, Whitespace)
                  ELSE 1
         IN  <<SubSeq(text, 1, n)>> \o findall_tokens(SubSeq(text, n + 1, Len(text)))

(* re.match(r'^[\w]+$', token) *)
is_word(token) == token # <<>> /\ \A k \in DOMAIN token : token[k] \in WordClass

(* ' '.join(parts) *)
RECURSIVE join_space(_)
join_space(parts) ==
    IF parts = <<>> THEN <<>>
    ELSE IF Len(parts) = 1 THEN parts[1]
    ELSE parts[1] \o <<" ">> \o join_space(Tail(parts))

(* fuzzywuzzy's utils.intr(100 * m.ratio()) for m.ratio() = 2*m/t:         *)
(* int(round(.)), which rounds a half to the even neighbour                *)
intr_ratio(m, t) ==
    LET q == (200 * m) \div t
        r == (200 * m) % t
    IN  IF 2 * r < t THEN q
        ELSE IF 2 * r > t THEN q + 1
        ELSE IF q % 2 = 0 THEN q ELSE q + 1

(* fuzz.ratio(s1, s2): 0 for an empty string, 100 for equal strings *)
fuzz_ratio(s1, s2) ==
    IF s1 = s2 THEN 100
    ELSE IF s1 = <<>> \/ s2 = <<>> THEN 0
    ELSE intr_ratio(matches(s1, s2), Len(s1) + Len(s2))

(* the starts <<i, j>> of SequenceMatcher(a, b).get_matching_blocks(),     *)
(* without the terminating empty block; oa and ob are the offsets of a and *)
(* b in the strings the matcher was built over                             *)
RECURSIVE block_starts(_, _, _, _)
block_starts(a, b, oa, ob) ==
    LET m == find_longest_match(a, b)
    IN  IF m[3] = 0 THEN {}
        ELSE {<<oa + m[1], ob + m[2]>>}
             \cup block_starts(SubSeq(a, 1, m[1] - 1), SubSeq(b, 1, m[2] - 1), oa, ob)
             \cup block_starts(SubSeq(a, m[1] + m[3], Len(a)), SubSeq(b, m[2] + m[3], Len(b)),
                               oa + m[1] + m[3] - 1, ob + m[2] + m[3] - 1)

(* fuzz.partial_ratio(s1, s2): the best ratio of the shorter string        *)
(* against the window of the longer one that each matching block aligns    *)
(* it with (the terminating block aligns the two ends)                     *)
fuzz_partial_ratio(s1, s2) ==
    IF s1 = s2 THEN 100
    ELSE IF s1 = <<>> \/ s2 = <<>> THEN 0
    ELSE LET shorter == IF Len(s1) <= Len(s2) THEN s1 ELSE s2
             longer == IF Len(s1) <= Len(s2) THEN s2 ELSE s1
             offsets == {b[2] - b[1] : b \in block_starts(shorter, longer, 0, 0)}
                            \cup {Len(longer) - Len(shorter)}
             long_start(o) == IF o > 0 THEN o ELSE 0
             long_substr(o) == SubSeq(longer, long_start(o) + 1,
                                      Min2(long_start(o) + Len(shorter), Len(longer)))
         IN  SetMax({intr_ratio(matches(shorter, long_substr(o)),
                                Len(shorter) + Len(long_substr(o))) : o \in offsets})

(* the loops  for length in range(1, 4): ... for town in towns:  at token  *)
(* i, unrolled into the sequence of their <<length, town>> iterations      *)
compound_iterations(tokens, i, towns) ==
    LET lengths == SelectSeq(<<1, 2, 3>>,
                             LAMBDA length :
                                 /\ i + length - 1 <= Len(tokens)
                                 /\ \A j \in 0..(length - 1) : is_word(tokens[i + j]))
    IN  Concat([l \in DOMAIN lengths |-> [t \in DOMAIN towns |-> <<lengths[l], towns[t]>>]])

(* best_match, best_similarity and best_length after the iterations its *)
RECURSIVE best_compound(_, _, _, _, _)
best_compound(its, tokens, i, threshold, best) ==
    IF its = <<>> THEN best
    ELSE LET length == Head(its)[1]
             town == Head(its)[2]
             compound == join_space(SubSeq(tokens, i, i + length - 1))
             similarity == fuzz_ratio(lower(compound), lower(town))
         IN  best_compound(Tail(its), tokens, i, threshold,
                 IF /\ similarity >= threshold
                    /\ \/ similarity > best.similarity
                       \/ similarity = best.similarity /\ length > best.length
                 THEN [match |-> <<town>>, similarity |-> similarity, length |-> length]
                 ELSE best)

(* max(ratio, partial_ratio) of a single word against a town *)
word_score(word, town) ==
    Max2(fuzz_ratio(lower(word), lower(town)), fuzz_partial_ratio(lower(word), lower(town)))

(* max(towns, key=...): the first town with the highest key *)
max_town(word, towns) ==
    LET top == SetMax({word_score(word, towns[t]) : t \in DOMAIN towns})
    IN  towns[SetMin({t \in DOMAIN towns : word_score(word, towns[t]) = top})]

(* the while loop of correct_text from token i on: the result list *)
RECURSIVE correct_from(_, _, _, _)
correct_from(tokens, i, towns, threshold) ==
    IF i > Len(tokens) THEN <<>>
    ELSE IF ~is_word(tokens[i])
    THEN <<tokens[i]>> \o correct_from(tokens, i + 1, towns, threshold)
    ELSE LET best == best_compound(compound_iterations(tokens, i, towns), tokens, i, threshold,
                                   [match |-> None, similarity |-> 0, length |-> 0])
         IN  IF best.match # None /\ best.match[1] # <<>> /\ best.length > 0
             THEN <<best.match[1]>> \o correct_from(tokens, i + best.length, towns, threshold)
             ELSE LET word == tokens[i]
                      best_match == max_town(word, towns)
                  IN  <<IF word_score(word, best_match) >= threshold THEN best_match ELSE word>>
                      \o correct_from(tokens, i + 1, towns, threshold)

(* correct_text(text, threshold) with the town names fetch_town_names()    *)
(* returned: ''.join(result), and the text itself when there are no towns  *)
correct_text(text, towns, threshold) ==
    IF towns = <<>> THEN text
    ELSE Concat(correct_from(findall_tokens(text), 1, towns, threshold))

TextWords == {<<"N", "e", "w">>, <<"Y", "o", "r", "k">>, <<"Y", "r", "o", "k">>, <<"L", "i", "t", "i", "t", "z">>}
TownLists == {<<>>, <<<<"N", "e", "w", " ", "Y", "o", "r", "k">>>>, <<<<"L", "i", "t", "i", "t", "z">>, <<"N", "e", "w", " ", "Y", "o", "r", "k">>>>}
Thresholds == {85, 101}

CorrectInputs ==
    [text : {join_space(ws) : ws \in SeqsUpTo(TextWords, MaxTextWords)},
     towns : TownLists,
     threshold : Thresholds]

InitCorrect == RequestIdle /\ fn = "" /\ arg \in CorrectInputs /\ ret = <<>>

CallCorrectText ==
    /\ fn = ""
    /\ fn' = "correct_text"
    /\ ret' = <<correct_text(arg.text, arg.towns, arg.threshold)>>
    /\ UNCHANGED <<arg, RequestVars>>

NextCorrect == CallCorrectText

SpecCorrect == InitCorrect /\ [][NextCorrect]_vars

(* the words of a text that is words joined by single spaces *)
words_of(text) == SelectSeq(findall_tokens(text), is_word)

(* C23: correct_text replaces a compound name of up to 3 consecutive words, *)
(* separated by whitespace, by the town it matches with similarity >=      *)
(* threshold and consumes all words of the compound: a text of two or      *)
(* three words that is, ignoring case, the only town name comes back as    *)
(* that town name.                                                         *)
C23_CompoundReplaced ==
    (/\ fn = "correct_text"
     /\ Len(words_of(arg.text)) \in 2..3
     /\ Len(arg.towns) = 1
     /\ lower(arg.text) = lower(arg.towns[1])
     /\ arg.threshold <= 100) =>
        ret = <<arg.towns[1]>>

(* the keywords of the call made in SpecFuzzy *)
KeywordsPassed == IF fn = "_fuzzy_match" THEN <<arg.kw>> ELSE ret[2]

(* keyword n of the call is not skipped and is similar enough to the text  *)
(* or contained in it, both after normalization                            *)
KeywordAccepts(n) ==
    LET t == _normalize(<<arg.text>>)
        kk == _normalize(<<KeywordsPassed[n]>>)
    IN  kk # <<>> /\ (RatioAtLeast(t, kk, arg.min_ratio) \/ Contains(t, kk))

(* C24: _fuzzy_match returns false whenever the text normalizes to the     *)
(* empty string, whatever the keywords; a keyword that normalizes to the   *)
(* empty string is skipped and never causes acceptance; otherwise the      *)
(* result is true exactly when some keyword has similarity ratio >=        *)
(* min_ratio or its normalized form is a substring of the normalized text. *)
C24_FuzzyMatchCharacterised ==
    fn # "" =>
        /\ _normalize(<<arg.text>>) = <<>> => ret[1] = FALSE
        /\ ret[1] = TRUE => \E n \in DOMAIN KeywordsPassed : KeywordAccepts(n)
        /\ _normalize(<<arg.text>>) # <<>> =>
               (ret[1] = TRUE <=> \E n \in DOMAIN KeywordsPassed : KeywordAccepts(n))

(* C24 witness: with the text "aB" and the keywords "!" and "B" the first  *)
(* keyword normalizes to the empty string and is skipped, and the second   *)
(* is accepted as a substring of "ab" although its similarity 2/3 is below *)
(* the threshold 1.                                                        *)
C24_Witness ==
    /\ fn = "_fuzzy_match_keywords"
    /\ arg.text = <<"a", "B">> /\ arg.min_ratio = <<1, 1>>
    /\ ret[2] = <<(<<"!">>), (<<"B">>)>>
    /\ _normalize(<<ret[2][1]>>) = <<>>
    /\ ret[1] = TRUE

(* the errors that leave _render_pdf_pages *)
RenderErrors == {"pdf2image", "unable_to_render"}

(* C25: _render_pdf_pages tries the renderers in a fixed order.  The       *)
(* primary renderer (pdf2image) is invoked first; the secondary (PyMuPDF)  *)
(* is invoked only after the primary has raised; when the primary succeeds *)
(* its pages are returned and the secondary is not called; when the        *)
(* primary fails and the secondary is unavailable the primary's error      *)
(* leaves the function; when both fail an error is raised and no page list *)
(* is returned.                                                            *)
C25_RendererOrder ==
    render_calls # <<>> =>
        /\ render_calls[1][1] = "pdf2image"
        /\ \A i \in DOMAIN render_calls :
               render_calls[i][1] = "fitz" =>
                   i = 2 /\ render_calls[1] = <<"pdf2image", "raise">>
        /\ render_calls[1][2] = "ok" =>
               /\ Len(render_calls) = 1
               /\ error \notin RenderErrors
               /\ pc # "for_pdf" \/ pdf_index > 1
        /\ render_calls = << <<"pdf2image", "raise">> >> =>
               error = "pdf2image" /\ pc \in {"raised", "done"}
        /\ render_calls = << <<"pdf2image", "raise">>, <<"fitz", "raise">> >> =>
               error = "unable_to_render" /\ pc \in {"raised", "done"}
        /\ render_calls = << <<"pdf2image", "raise">>, <<"fitz", "ok">> >> =>
               error \notin RenderErrors
        /\ error \in RenderErrors => response.status # 200

(* C25 witness: PyMuPDF was invoked after pdf2image had raised, rendered   *)
(* the document, and the page loop runs over the pages it returned.        *)
C25_Witness ==
    /\ render_calls = << <<"pdf2image", "raise">>, <<"fitz", "ok">> >>
    /\ pc = "for_page" /\ page_idx = 1 /\ pages # <<>>
    /\ error = ""

(* C26: on the primary path the top of the crop box never exceeds          *)
(* int(0.14 * H), and a detected header_top at or below the cap line       *)
(* (header_top >= int(0.14 * H)) yields exactly the crop box of the same   *)
(* page with no detected header.                                           *)
C26_HeaderCapped ==
    (PageCropped /\ loc.mailto_box # None) =>
        /\ loc.crop_box[2] <= Fraction(14, 100, loc.img_h)
        /\ (loc.header_top # None /\ loc.header_top[1] >= Fraction(14, 100, loc.img_h)) =>
               loc.crop_box = primary_crop_box(loc.mailto_box, None, loc.img_w, loc.img_h)

(* C26 witness: on a 1000x1200 page "Name" is found just above the middle  *)
(* line (header_top 599 - 12 = 587, below the cap line 168) and "Mail to"  *)
(* in the bottom right corner; the top of the crop box is the cap, 168.    *)
C26_Witness ==
    /\ PageCropped
    /\ loc.img_w = 1000 /\ loc.img_h = 1200
    /\ loc.mailto_box = <<979, 1187, 1000, 1200>>
    /\ loc.header_top = <<587>>
    /\ loc.crop_box = <<679, 168, 1000, 1200>>

(* C27: in one crop_pdfs call over several input PDFs all archive member   *)
(* names are pairwise distinct, so that no page's crop shares its name     *)
(* with another page's crop, also when two uploaded files have the same    *)
(* base name.                                                              *)
C27_MemberNamesDistinct ==
    \A i, j \in DOMAIN zipf : i # j => zipf[i].name # zipf[j].name

(* C28: when two requests to a splitter endpoint run concurrently with     *)
(* uploads of the same file name but different content, each response      *)
(* delivers the ZIP built from its own upload: no interleaving of the copy *)
(* to the shared downloads directory and the later file send lets one      *)
(* request return the other's ZIP.                                         *)
C28_OwnZipDelivered ==
    \A r \in Requests :
        response[r].status = 200 => response[r].body.of = arg[r].content

(***************************************************************************)
(* Template detection: TemplateCheckerService.detect_template              *)
(* (app/services/template_checker/service.py).  The OpenCV pipeline up to  *)
(* cv2.boundingRect is a sequence of bounding boxes [x, y, w, h] inside    *)
(* the header region, in contour order; the decimal thresholds are         *)
(* compared exactly (the doubles agree with the exact products for every   *)
(* image width up to 5000).                                                *)
(***************************************************************************)
MaxContours == 2

(* the header region of a W x H image: rows int(H * 0.02) .. int(H * 0.45) *)
roi_of(W, H) ==
    [top |-> (2 * H) \div 100, bottom |-> (45 * H) \div 100,
     roi_w |-> W, roi_h |-> ((45 * H) \div 100) - ((2 * H) \div 100)]

(* lines 50-56: the box is kept as a candidate.  area_ratio is             *)
(* w * h / (roi_w * roi_h) and ar is w / (h + 1e-6)                         *)
is_candidate(r, roi_w, roi_h) ==
    /\ 100 * r.w * r.h >= roi_w * roi_h
    /\ 10 * r.w * r.h <= 6 * roi_w * roi_h
    /\ 10000000 * r.w >= 8 * (1000000 * r.h + 1)
    /\ 1000000 * r.w <= 5 * (1000000 * r.h + 1)
    /\ 100 * r.h > 7 * roi_h

(* the candidates list; x_center2 is twice x_center = x + w / 2.0           *)
candidates_of(rects, roi_w, roi_h) ==
    LET kept == SelectSeq(rects, LAMBDA r : is_candidate(r, roi_w, roi_h))
    IN  [k \in DOMAIN kept |->
            [x |-> kept[k].x, y |-> kept[k].y, w |-> kept[k].w, h |-> kept[k].h,
             x_center2 |-> 2 * kept[k].x + kept[k].w]]

(* line 69: c["x"] > 0.55 * roi_w or c["x_center"] > 0.62 * roi_w *)
right_boxes(candidates, roi_w) ==
    SelectSeq(candidates, LAMBDA c : 100 * c.x > 55 * roi_w \/ 100 * c.x_center2 > 124 * roi_w)

(* line 70: c["x"] < 0.2 * roi_w and c["w"] > 0.5 * roi_w *)
centered_wide(candidates, roi_w) ==
    SelectSeq(candidates, LAMBDA c : 10 * c.x < 2 * roi_w /\ 2 * c.w > roi_w)

(* mutant of detect_template: with boxes of both kinds the centered wide   *)
(* box decides                                                             *)
DetectTemplateCenteredWins(W, H, rects) ==
    LET roi == roi_of(W, H)
        candidates == candidates_of(rects, roi.roi_w, roi.roi_h)
    IN  [template_id |-> IF /\ right_boxes(candidates, roi.roi_w) # <<>>
                            /\ centered_wide(candidates, roi.roi_w) = <<>>
                         THEN 2 ELSE 1,
         candidates |-> candidates]

(* detect_template on a W x H image whose contours have the bounding boxes *)
(* rects: the decision rules of lines 64-88                                *)
detect_template(W, H, rects) ==
    LET roi == roi_of(W, H)
        candidates == candidates_of(rects, roi.roi_w, roi.roi_h)
        right == right_boxes(candidates, roi.roi_w)
        centered == centered_wide(candidates, roi.roi_w)
        template_id ==
            IF candidates = <<>> THEN 1
            ELSE IF right # <<>> /\ centered = <<>> THEN 2
            ELSE IF centered # <<>> /\ right = <<>> THEN 1
            ELSE IF right # <<>> THEN 2
            ELSE 1
    IN  [template_id |-> template_id, candidates |-> candidates]

TemplateSizes == {<<100, 100>>, <<200, 100>>}

(* bounding boxes in the header region of an image of width W, as          *)
(* <<x, w>> in percent of W with a height: starting right of 55%, centered *)
(* right of 62%, wide from the left, in the middle, starting at 55% and    *)
(* at 56% with the center at or left of 62%, and one too small to count    *)
ContourPool(W) ==
    {[x |-> (b[1] * W) \div 100, y |-> 2, w |-> (b[2] * W) \div 100, h |-> b[3]] :
        b \in {<<60, 30, 20>>, <<40, 50, 40>>, <<10, 60, 40>>, <<30, 20, 20>>,
               <<55, 12, 20>>, <<56, 12, 20>>, <<60, 5, 5>>}}

TemplateInputs ==
    UNION {[W : {d[1]}, H : {d[2]}, rects : SeqsUpTo(ContourPool(d[1]), MaxContours)] :
              d \in TemplateSizes}

InitTemplate == RequestIdle /\ fn = "" /\ arg \in TemplateInputs /\ ret = <<>>

CallDetectTemplate ==
    /\ fn = ""
    /\ fn' = "detect_template"
    /\ ret' = <<detect_template(arg.W, arg.H, arg.rects)>>
    /\ UNCHANGED <<arg, RequestVars>>

NextTemplate == CallDetectTemplate

SpecTemplate == InitTemplate /\ [][NextTemplate]_vars

(* candidate c is right-anchored in a header region of width roi_w: it     *)
(* starts right of 55% of the width or its center lies right of 62%        *)
RightAnchored(c, roi_w) ==
    100 * c.x > 55 * roi_w \/ 100 * (2 * c.x + c.w) > 2 * 62 * roi_w

(* the bounding boxes without those that start left of 20% of the width    *)
(* and are wider than half of it                                           *)
WithoutCenteredWide(rects, roi_w) ==
    SelectSeq(rects, LAMBDA r : ~(10 * r.x < 2 * roi_w /\ 2 * r.w > roi_w))

(* C29: detect_template returns template_id 2 exactly when at least one    *)
(* candidate box is right-anchored (x > 55% of the ROI width or x_center > *)
(* 62% of it) and template_id 1 otherwise; the presence or absence of      *)
(* centered wide boxes never changes template_id, and with no candidates   *)
(* the result is 1.                                                        *)
C29_RightBoxDecides ==
    fn = "detect_template" =>
        LET cands == ret[1].candidates
        IN  /\ ret[1].template_id \in {1, 2}
            /\ ret[1].template_id = 2 <=>
                   \E k \in DOMAIN cands : RightAnchored(cands[k], arg.W)
            /\ cands = <<>> => ret[1].template_id = 1
            /\ ret[1].template_id =
                   detect_template(arg.W, arg.H, WithoutCenteredWide(arg.rects, arg.W)).template_id

(* C29 witness: a 100x100 image with a centered wide box and a             *)
(* right-anchored box, both candidates: the template is 2.                 *)
C29_Witness ==
    /\ fn = "detect_template"
    /\ arg.W = 100 /\ arg.H = 100
    /\ arg.rects = <<[x |-> 10, y |-> 2, w |-> 60, h |-> 40],
                     [x |-> 60, y |-> 2, w |-> 30, h |-> 20]>>
    /\ Len(ret[1].candidates) = 2
    /\ ret[1].template_id = 2

====
